---- MODULE Spec2Model ----
(***************************************************************************)
(* OAuth token lifecycle of the plants backend: the credential store       *)
(* (backend/src/tokenStore.ts, table oauth_tokens) and the token engine    *)
(* (backend/src/oauth.ts: exchangeCodeForTokens, refreshAccessToken,       *)
(* getValidAccessToken).  A call is suspended at its awaits and a step     *)
(* runs it from one await to the next, so overlapping requests interleave  *)
(* where Node can interleave them.  A token response and the code that     *)
(* processes it are one step, and so is a deleteTokens call: the code      *)
(* observes nothing in between.                                            *)
(*                                                                         *)
(* Spec runs the token engine with deleteTokens, SpecStore the credential  *)
(* store called directly (storeTokens, getTokenData, deleteTokens), and    *)
(* SpecAuth the request middleware (backend/src/authMiddleware.ts:         *)
(* extractPortalId, authenticateRequest) on top of the token engine.       *)
(*                                                                         *)
(* Times are milliseconds, counted from the start of the run.  Tokens are  *)
(* opaque strings in the code; here token n is the n-th one the            *)
(* authorization server issued.  JavaScript's undefined is Undefined.      *)
(***************************************************************************)
EXTENDS Integers, Sequences, FiniteSets, TLC

\* ---------------------------------------------------------------- bounds
\* the clock stops advancing here
MaxNow == 3200000
\* at most this many calls are started in one run
MaxStarts == 3
\* at most this many requests reach the routes of server.ts in one run
MaxRequests == 2
\* at most this many clicks on the buttons of the card that send a request
MaxClicks == 3
\* the clock of the routes stops advancing after this many half days
MaxHalfDays == 2

\* ------------------------------------------------------------- constants
\* oauth.ts:117  const bufferTime = 5 * 60 * 1000
bufferTime == 5 * 60 * 1000
\* oauth.ts:33 and :85  tokenResponse.expiresIn || 1800
DefaultExpiresIn == 1800

Undefined == -1

\* overlapping requests in flight
Calls == {"a", "b"}
\* tenant ids the callers ask about (0 is what a response without hub_id
\* is stored under)
PortalIds == {0, 1}
\* hub_id strings the authorization server answers with, as digit sequences;
\* the empty sequence is a response without hub_id
HubIds == {<< >>, <<1>>}
\* expires_in (seconds) of a token response; Undefined when omitted
ExpiresInValues == {Undefined, 300}
\* how far the clock moves in one tick: from the issue of a 1800 s token to
\* a moment inside its last 5 minutes, and from there past its expiry
TickSteps == {1600000}

VARIABLES
  rows,             \* table oauth_tokens: a set of rows
  now,              \* Date.now()
  issued,           \* number of token responses the authorization server granted
  hasClientCreds,   \* CLIENT_ID && CLIENT_SECRET are set in the environment
  started,          \* number of calls started so far
  call,             \* per request in flight: operation, position and locals
  req,              \* per request in flight: the HTTP request authenticateRequest handles
  handler,          \* per request in flight: the route handler of server.ts at work
  hubspot,          \* the CRM behind the HubSpot API: plant objects and associations
  env,              \* the environment of the server process
  card              \* the plant search card in the browser

\* what the routes of server.ts and the card add to the token engine
serverVars == <<handler, hubspot, env, card>>

vars == <<rows, now, issued, hasClientCreds, started, call, req, serverVars>>

\* ------------------------------------------------------------ JavaScript
\* x || y on numbers: undefined and 0 are falsy
OrElse(x, y) == IF x = Undefined \/ x = 0 THEN y ELSE x

RECURSIVE ParseDigits(_, _)
ParseDigits(s, acc) ==
  IF s = << >> THEN acc ELSE ParseDigits(Tail(s), acc * 10 + Head(s))

\* parseInt(s, 10) of a string of decimal digits
parseInt(s) == ParseDigits(s, 0)

\* ---------------------------------------------------------- tokenStore.ts
\* the value of getTokenData for a tenant without a row (null)
Null == [portalId |-> Undefined, accessToken |-> Undefined,
         refreshToken |-> Undefined, expiresAt |-> Undefined]

RowOf(d) == [portal_id |-> d.portalId, access_token |-> d.accessToken,
             refresh_token |-> d.refreshToken, expires_at |-> d.expiresAt]

\* variant: INSERT without the ON CONFLICT clause
storeTokensPlainInsert(t, d) == t \cup {RowOf(d)}

\* variant: DO UPDATE SET leaves out refresh_token
storeTokensKeepsRefreshToken(t, d) ==
  IF \E r \in t : r.portal_id = d.portalId
  THEN {IF r.portal_id = d.portalId
        THEN [r EXCEPT !.access_token = d.accessToken,
                       !.expires_at = d.expiresAt]
        ELSE r : r \in t}
  ELSE t \cup {RowOf(d)}

\* variant: ON CONFLICT (portal_id) DO NOTHING
storeTokensDoNothing(t, d) ==
  IF \E r \in t : r.portal_id = d.portalId THEN t ELSE t \cup {RowOf(d)}

\* INSERT ... ON CONFLICT (portal_id) DO UPDATE SET access_token, refresh_token, expires_at
storeTokens(t, d) ==
  IF \E r \in t : r.portal_id = d.portalId
  THEN {IF r.portal_id = d.portalId
        THEN [r EXCEPT !.access_token = d.accessToken,
                       !.refresh_token = d.refreshToken,
                       !.expires_at = d.expiresAt]
        ELSE r : r \in t}
  ELSE t \cup {RowOf(d)}

\* variant: the SELECT list of getAccessToken (no refresh_token)
getTokenDataNoRefreshToken(t, p) ==
  IF {r \in t : r.portal_id = p} = {}
  THEN Null
  ELSE LET row == CHOOSE r \in t : r.portal_id = p
       IN  [portalId |-> row.portal_id, accessToken |-> row.access_token,
            refreshToken |-> Undefined, expiresAt |-> row.expires_at]

\* SELECT ... WHERE portal_id = $1; rows[0] or null
getTokenData(t, p) ==
  IF {r \in t : r.portal_id = p} = {}
  THEN Null
  ELSE LET row == CHOOSE r \in t : r.portal_id = p
       IN  [portalId |-> row.portal_id, accessToken |-> row.access_token,
            refreshToken |-> row.refresh_token, expiresAt |-> row.expires_at]

\* variant: DELETE without the WHERE clause
deleteTokensNoWhere(t, p) == {}

\* DELETE FROM oauth_tokens WHERE portal_id = $1
deleteTokens(t, p) == {r \in t : r.portal_id # p}

\* ------------------------------------------------------------ call state
\* no token response received
NoResponse == [hubId |-> << >>, accessToken |-> Undefined,
               refreshToken |-> Undefined, expiresIn |-> Undefined]

\* a call slot: op/portalId are the function called and its argument, pc the
\* await it is suspended at, tokenData/currentTokenData/tokenResponse/
\* newTokenData the locals of the same names, result/value how it ended,
\* tokenCalls the number of token-endpoint requests it sent, path the branch
\* getValidAccessToken took
Idle == [op |-> "none", portalId |-> Undefined, pc |-> "idle",
         tokenData |-> Null, currentTokenData |-> Null,
         tokenResponse |-> NoResponse, newTokenData |-> Null,
         result |-> "none", value |-> Undefined, tokenCalls |-> 0,
         path |-> "none"]

Set(c, r) == call' = [call EXCEPT ![c] = r]

\* what is left of a call once it has ended: how it ended; its locals are gone
Ended(r, kind, v) ==
  [Idle EXCEPT !.op = r.op, !.portalId = r.portalId, !.pc = "done",
               !.result = kind, !.value = v, !.tokenCalls = r.tokenCalls,
               !.path = r.path]

\* the call ends by throwing `kind`
Throw(c, kind) == Set(c, Ended(call[c], kind, Undefined))

\* the call ends by returning v
Return(c, v) == Set(c, Ended(call[c], "ok", v))

\* ------------------------------------------------------ authMiddleware.ts
\* what parseInt returns for a string that does not start with a digit
NaN == -2
\* null, as extractPortalId returns it
NullId == -3
\* a character that is not a decimal digit (characters 0..9 are the digits)
Letter == 10

\* JavaScript values found in a request body: a property that is missing
\* (undefined), a string (its characters) or a non-negative integer number
\* (its decimal digits)
Absent == [type |-> "undefined", chars |-> << >>]
Str(s) == [type |-> "string", chars |-> s]
Num(s) == [type |-> "number", chars |-> s]

\* if (v): undefined, "" and 0 are falsy
Truthy(v) ==
  CASE v.type = "undefined" -> FALSE
    [] v.type = "string" -> v.chars # << >>
    [] v.type = "number" -> parseInt(v.chars) # 0

RECURSIVE LeadingDigits(_)
LeadingDigits(s) ==
  IF s = << >> \/ Head(s) \notin 0..9 THEN << >>
  ELSE <<Head(s)>> \o LeadingDigits(Tail(s))

\* parseInt(v, 10) of a value: the leading digits of String(v), NaN when
\* there are none ("undefined" has none)
parseInt10(v) ==
  IF v.type = "undefined" \/ LeadingDigits(v.chars) = << >>
  THEN NaN
  ELSE parseInt(LeadingDigits(v.chars))

\* the value is an id: a positive integer, as a number or as a string of
\* decimal digits
HoldsId(v) ==
  /\ v.type \in {"string", "number"}
  /\ v.chars # << >>
  /\ \A i \in 1..Len(v.chars) : v.chars[i] \in 0..9
  /\ \E i \in 1..Len(v.chars) : v.chars[i] # 0

RECURSIVE DecimalValue(_)
DecimalValue(s) ==
  IF s = << >> THEN 0
  ELSE 10 * DecimalValue(SubSeq(s, 1, Len(s) - 1)) + s[Len(s)]

\* the id a value holds
IdOf(v) == DecimalValue(v.chars)

\* a parsed request body, by the properties extractPortalId reads
Body(top, origin, ext, context) ==
  [portalId |-> top,
   origin |-> [portalId |-> origin, extensionDefinitionId |-> ext],
   context |-> [portalId |-> context]]

EmptyBody == Body(Absent, Absent, Absent, Absent)

\* variant: the top-level portalId is looked at first
extractPortalIdTopLevelFirst(body) ==
  IF Truthy(body.portalId) THEN parseInt10(body.portalId)
  ELSE IF Truthy(body.origin.portalId) THEN parseInt10(body.origin.portalId)
  ELSE IF Truthy(body.context.portalId) THEN parseInt10(body.context.portalId)
  ELSE IF Truthy(body.origin.extensionDefinitionId)
       THEN parseInt10(body.origin.portalId)
  ELSE NullId

\* authMiddleware.ts:20-37
extractPortalId(body) ==
  IF Truthy(body.origin.portalId) THEN parseInt10(body.origin.portalId)
  ELSE IF Truthy(body.portalId) THEN parseInt10(body.portalId)
  ELSE IF Truthy(body.context.portalId) THEN parseInt10(body.context.portalId)
  ELSE IF Truthy(body.origin.extensionDefinitionId)
       THEN parseInt10(body.origin.portalId)
  ELSE NullId

\* req.body as it reaches the middleware.  buffer: it is a Buffer (what
\* express.raw leaves for a request with a body); its text is then the JSON
\* text of obj stringified `levels` more times, or, when not valid, a text
\* that is not JSON at the innermost level.  Not a Buffer: obj itself.
Raw(levels, valid, obj) ==
  [buffer |-> TRUE, levels |-> levels, valid |-> valid, obj |-> obj]
Parsed(obj) == [buffer |-> FALSE, levels |-> 0, valid |-> TRUE, obj |-> obj]

\* JSON.parse of a text: throws, or yields a string (the text one level
\* further in), or yields the object
JSONparse(text) ==
  IF text.levels > 0
  THEN [kind |-> "string", levels |-> text.levels - 1, valid |-> text.valid,
        obj |-> text.obj]
  ELSE IF text.valid
       THEN [kind |-> "object", levels |-> 0, valid |-> TRUE, obj |-> text.obj]
       ELSE [kind |-> "throw", levels |-> 0, valid |-> FALSE, obj |-> text.obj]

\* authMiddleware.ts:49-55: a Buffer is parsed, and parsed once more when the
\* result is a string
DecodeBody(b) ==
  IF ~b.buffer
  THEN [kind |-> "object", levels |-> 0, valid |-> TRUE, obj |-> b.obj]
  ELSE LET parsed == JSONparse(b)
       IN  IF parsed.kind = "string" THEN JSONparse(parsed) ELSE parsed

\* the properties extractPortalId finds on a decoded body: a string has none
\* of them
PropertiesOf(decoded) ==
  IF decoded.kind = "object" THEN decoded.obj ELSE EmptyBody

\* the request bodies of the runs
Bodies ==
  { Parsed(EmptyBody),
    Raw(0, TRUE, EmptyBody),
    Raw(0, TRUE, Body(Absent, Str(<<1, 2, 3>>), Absent, Absent)),
    Raw(0, TRUE, Body(Num(<<1>>), Absent, Absent, Absent)),
    Raw(0, TRUE, Body(Absent, Absent, Absent, Str(<<1>>))),
    Raw(0, TRUE, Body(Str(<<1>>), Str(<<2>>), Absent, Str(<<3>>))),
    Raw(0, TRUE, Body(Str(<<1>>), Absent, Absent, Str(<<2>>))),
    Raw(0, TRUE, Body(Absent, Absent, Str(<<5>>), Absent)),
    Raw(0, TRUE, Body(Num(<<0>>), Absent, Absent, Absent)),
    Raw(0, TRUE, Body(Str(<<Letter>>), Absent, Absent, Absent)),
    Raw(1, TRUE, Body(Num(<<1>>), Absent, Absent, Absent)),
    Raw(2, TRUE, Body(Num(<<1>>), Absent, Absent, Absent)),
    Raw(0, FALSE, EmptyBody),
    Raw(1, FALSE, EmptyBody) }

\* ---------------------------------------------------------------- server.ts
\* no route handler at work in the slot.  route is the route, pc the await it
\* is suspended at, raw is req.body, body its local body (the decoded
\* req.body), contactId/plantId/wateringDays the values
\* of those names taken from the body, plantObject the id of the plant object
\* it created, days/today/next the watering period and the two dates the
\* water-plant route computed, status the status of its response and
\* plantObjectId/lastWateredDate/nextWateringDate the fields of that response
NoHandler ==
  [route |-> "none", pc |-> "idle", raw |-> Parsed(EmptyBody),
   body |-> [kind |-> "none", levels |-> 0, valid |-> TRUE, obj |-> EmptyBody],
   contactId |-> Absent, plantId |-> Absent, wateringDays |-> Absent,
   plantObject |-> Undefined, days |-> Undefined, today |-> Undefined,
   next |-> Undefined, status |-> 0, error |-> "none",
   plantObjectId |-> Undefined, lastWateredDate |-> Undefined,
   nextWateringDate |-> Undefined]

\* a HubSpot portal with one contact and without plant objects: contacts are
\* the ids of its contacts, plants the p_plants objects, associations the
\* pairs <<plant object id, contact id>>
EmptyPortal == [contacts |-> {1}, plants |-> {}, associations |-> {}]

\* the card as it is mounted on a contact record: no plant selected, nothing
\* loading, no request sent.  selection counts the plants that have been
\* selected, details are the plants whose details are being fetched, requests
\* the calls of addPlantToContact in the order of the clicks, clicks the
\* clicks on "View Details" and "Add Plant to Contact"
CardMounted ==
  [selectedPlant |-> Undefined, selection |-> 0, loading |-> FALSE,
   error |-> "none", showSearch |-> FALSE, associatedPlants |-> {},
   details |-> {}, requests |-> << >>, clicks |-> 0]

\* no HTTP request in the slot: body is req.body, stage the position of
\* authenticateRequest, extracted its local portalId, status/details the
\* status and error message it answered with, portalId/accessToken what it
\* attached to the request before calling next, responses/nextCalls how many
\* responses it sent and how many times it called next
NoRequest == [body |-> Parsed(EmptyBody), stage |-> "none",
              extracted |-> Undefined, status |-> 0, details |-> "none",
              portalId |-> Undefined, accessToken |-> Undefined,
              responses |-> 0, nextCalls |-> 0]

Init ==
  /\ rows = {}
  /\ now = 0
  /\ issued = 0
  /\ hasClientCreds \in BOOLEAN
  /\ started = 0
  /\ call = [c \in Calls |-> Idle]
  /\ req = [c \in Calls |-> NoRequest]
  /\ handler = [c \in Calls |-> NoHandler]
  /\ hubspot = EmptyPortal
  /\ env = [accessToken |-> TRUE, zone |-> "UTC"]
  /\ card = CardMounted

\* time passes between two steps
Tick ==
  /\ \E d \in TickSteps : now + d <= MaxNow /\ now' = now + d
  /\ UNCHANGED <<rows, issued, hasClientCreds, started, call>>

\* a slot is free and the run may start one more call
Startable(c) ==
  /\ call[c].pc \in {"idle", "done"}
  /\ started < MaxStarts

\* ---------------------------------------------- exchangeCodeForTokens
\* oauth.ts:12-28: credentials check, then the token request is sent
StartExchange(c) ==
  /\ Startable(c)
  /\ started' = started + 1
  /\ IF ~hasClientCreds
     THEN Set(c, [Idle EXCEPT !.op = "exchangeCodeForTokens", !.pc = "done",
                              !.result = "MissingCredentials"])
     ELSE Set(c, [Idle EXCEPT !.op = "exchangeCodeForTokens",
                              !.pc = "ex_awaitToken", !.tokenCalls = 1])
  /\ UNCHANGED <<rows, now, issued, hasClientCreds>>

\* variant: expires_in taken as milliseconds
ExchangeTokenDataNoMillis(tokenResponse, t) ==
  LET expiresIn == OrElse(tokenResponse.expiresIn, DefaultExpiresIn)
      expiresAt == t + expiresIn
  IN  [portalId |-> parseInt(IF tokenResponse.hubId = << >> THEN <<0>>
                             ELSE tokenResponse.hubId),
       accessToken |-> tokenResponse.accessToken,
       refreshToken |-> tokenResponse.refreshToken,
       expiresAt |-> expiresAt]

\* variant: no default for a response without hub_id
ExchangeTokenDataNoDefault(tokenResponse, t) ==
  LET expiresIn == OrElse(tokenResponse.expiresIn, DefaultExpiresIn)
      expiresAt == t + (expiresIn * 1000)
  IN  [portalId |-> IF tokenResponse.hubId = << >> THEN Undefined
                    ELSE parseInt(tokenResponse.hubId),
       accessToken |-> tokenResponse.accessToken,
       refreshToken |-> tokenResponse.refreshToken,
       expiresAt |-> expiresAt]

\* oauth.ts:32-41: the TokenData built from a token response
ExchangeTokenData(tokenResponse, t) ==
  LET expiresIn == OrElse(tokenResponse.expiresIn, DefaultExpiresIn)
      expiresAt == t + (expiresIn * 1000)
  IN  [portalId |-> parseInt(IF tokenResponse.hubId = << >> THEN <<0>>
                             ELSE tokenResponse.hubId),
       accessToken |-> tokenResponse.accessToken,
       refreshToken |-> tokenResponse.refreshToken,
       expiresAt |-> expiresAt]

\* variant: the record is written before the response is looked at
ExchangeResponseStoresOnReject(c) ==
  /\ call[c].pc = "ex_awaitToken"
  /\ \/ /\ issued' = issued + 1
        /\ \E h \in HubIds, e \in ExpiresInValues :
             LET tokenResponse == [hubId |-> h, accessToken |-> issued + 1,
                                   refreshToken |-> issued + 1, expiresIn |-> e]
             IN  Set(c, [call[c] EXCEPT !.pc = "ex_storeTokens",
                           !.tokenResponse = tokenResponse,
                           !.newTokenData = ExchangeTokenData(tokenResponse, now)])
        /\ UNCHANGED rows
     \/ /\ Throw(c, "ExchangeFailed")
        /\ rows' = storeTokens(rows, ExchangeTokenData(NoResponse, now))
        /\ UNCHANGED issued
  /\ UNCHANGED <<now, hasClientCreds, started>>

\* oauth.ts:22-44: the authorization server answers the authorization_code
\* grant and the response is processed; :47-50 when it rejects the code
ExchangeResponse(c) ==
  /\ call[c].pc = "ex_awaitToken"
  /\ \/ /\ issued' = issued + 1
        /\ \E h \in HubIds, e \in ExpiresInValues :
             LET tokenResponse == [hubId |-> h, accessToken |-> issued + 1,
                                   refreshToken |-> issued + 1, expiresIn |-> e]
             IN  Set(c, [call[c] EXCEPT !.pc = "ex_storeTokens",
                           !.tokenResponse = tokenResponse,
                           !.newTokenData = ExchangeTokenData(tokenResponse, now)])
     \/ /\ Throw(c, "ExchangeFailed")
        /\ UNCHANGED issued
  /\ UNCHANGED <<rows, now, hasClientCreds, started>>

\* oauth.ts:44-46 -> tokenStore.ts:34-45; a store error is caught at oauth.ts:47-50
ExchangeStore(c) ==
  /\ call[c].pc = "ex_storeTokens"
  /\ \/ /\ rows' = storeTokens(rows, call[c].newTokenData)
        /\ Return(c, call[c].newTokenData.accessToken)
     \/ /\ Throw(c, "ExchangeFailed")
        /\ UNCHANGED rows
  /\ UNCHANGED <<now, issued, hasClientCreds, started>>

\* ------------------------------------------------- refreshAccessToken
\* refreshAccessToken is entered from getValidAccessToken (oauth.ts:121), its
\* only caller.
\* oauth.ts:56-64: credentials check, then getTokenData is awaited
RefreshEntry(r) ==
  IF ~hasClientCreds
  THEN Ended(r, "MissingCredentials", Undefined)
  ELSE [r EXCEPT !.pc = "rf_getTokenData"]

\* oauth.ts:64-80 -> tokenStore.ts:96-113: the SELECT runs; without a row the
\* call throws, otherwise the refresh_token grant is sent
RefreshGetTokenData(c) ==
  /\ call[c].pc = "rf_getTokenData"
  /\ \/ LET cur == getTokenData(rows, call[c].portalId)
        IN  IF cur = Null
            THEN Throw(c, "NoTokenData")
            ELSE Set(c, [call[c] EXCEPT !.pc = "rf_awaitToken",
                                        !.currentTokenData = cur,
                                        !.tokenCalls = @ + 1])
     \/ Throw(c, "StoreError")
  /\ UNCHANGED <<rows, now, issued, hasClientCreds, started>>

\* variant: the refresh token of the response is stored as it came
RefreshTokenDataNoFallback(portalId, tokenResponse, currentTokenData, t) ==
  LET expiresIn == OrElse(tokenResponse.expiresIn, DefaultExpiresIn)
      expiresAt == t + (expiresIn * 1000)
  IN  [portalId |-> portalId,
       accessToken |-> tokenResponse.accessToken,
       refreshToken |-> tokenResponse.refreshToken,
       expiresAt |-> expiresAt]

\* oauth.ts:84-93: the TokenData built from a refresh response
RefreshTokenData(portalId, tokenResponse, currentTokenData, t) ==
  LET expiresIn == OrElse(tokenResponse.expiresIn, DefaultExpiresIn)
      expiresAt == t + (expiresIn * 1000)
  IN  [portalId |-> portalId,
       accessToken |-> tokenResponse.accessToken,
       refreshToken |-> OrElse(tokenResponse.refreshToken,
                               currentTokenData.refreshToken),
       expiresAt |-> expiresAt]

\* variant: a rejected grant removes the tenant's record
RefreshResponseDeletesOnReject(c) ==
  /\ call[c].pc = "rf_awaitToken"
  /\ \/ /\ issued' = issued + 1
        /\ \E rt \in {Undefined, issued + 1}, e \in ExpiresInValues :
             LET tokenResponse == [hubId |-> << >>, accessToken |-> issued + 1,
                                   refreshToken |-> rt, expiresIn |-> e]
             IN  Set(c, [call[c] EXCEPT !.pc = "rf_storeTokens",
                           !.tokenResponse = tokenResponse,
                           !.newTokenData =
                              RefreshTokenData(call[c].portalId, tokenResponse,
                                               call[c].currentTokenData, now)])
        /\ UNCHANGED rows
     \/ /\ Throw(c, "RefreshFailed")
        /\ rows' = deleteTokens(rows, call[c].portalId)
        /\ UNCHANGED issued
  /\ UNCHANGED <<now, hasClientCreds, started>>

\* variant: a rejected grant is sent once more before the call gives up
RefreshResponseRetries(c) ==
  /\ call[c].pc = "rf_awaitToken"
  /\ \/ /\ issued' = issued + 1
        /\ \E rt \in {Undefined, issued + 1}, e \in ExpiresInValues :
             LET tokenResponse == [hubId |-> << >>, accessToken |-> issued + 1,
                                   refreshToken |-> rt, expiresIn |-> e]
             IN  Set(c, [call[c] EXCEPT !.pc = "rf_storeTokens",
                           !.tokenResponse = tokenResponse,
                           !.newTokenData =
                              RefreshTokenData(call[c].portalId, tokenResponse,
                                               call[c].currentTokenData, now)])
     \/ /\ IF call[c].tokenCalls < 2
           THEN Set(c, [call[c] EXCEPT !.tokenCalls = @ + 1])
           ELSE Throw(c, "RefreshFailed")
        /\ UNCHANGED issued
  /\ UNCHANGED <<rows, now, hasClientCreds, started>>

\* oauth.ts:73-96: the authorization server answers the refresh_token grant
\* and the response is processed; :99-102 when it rejects the grant
RefreshResponse(c) ==
  /\ call[c].pc = "rf_awaitToken"
  /\ \/ /\ issued' = issued + 1
        /\ \E rt \in {Undefined, issued + 1}, e \in ExpiresInValues :
             LET tokenResponse == [hubId |-> << >>, accessToken |-> issued + 1,
                                   refreshToken |-> rt, expiresIn |-> e]
             IN  Set(c, [call[c] EXCEPT !.pc = "rf_storeTokens",
                           !.tokenResponse = tokenResponse,
                           !.newTokenData =
                              RefreshTokenData(call[c].portalId, tokenResponse,
                                               call[c].currentTokenData, now)])
     \/ /\ Throw(c, "RefreshFailed")
        /\ UNCHANGED issued
  /\ UNCHANGED <<rows, now, hasClientCreds, started>>

\* oauth.ts:96 -> tokenStore.ts:34-45; a store error is caught at oauth.ts:99-102
RefreshStore(c) ==
  /\ call[c].pc = "rf_storeTokens"
  /\ \/ /\ rows' = storeTokens(rows, call[c].newTokenData)
        /\ Set(c, [call[c] EXCEPT !.pc = "rf_return"])
     \/ /\ Throw(c, "RefreshFailed")
        /\ UNCHANGED rows
  /\ UNCHANGED <<now, issued, hasClientCreds, started>>

\* variant: the access token read before the refresh is returned
RefreshReturnStale(c) ==
  /\ call[c].pc = "rf_return"
  /\ Return(c, call[c].currentTokenData.accessToken)
  /\ UNCHANGED <<rows, now, issued, hasClientCreds, started>>

\* oauth.ts:98
RefreshReturn(c) ==
  /\ call[c].pc = "rf_return"
  /\ Return(c, call[c].newTokenData.accessToken)
  /\ UNCHANGED <<rows, now, issued, hasClientCreds, started>>

\* ------------------------------------------------ getValidAccessToken
\* oauth.ts:108-109: the call starts and awaits getTokenData
StartGetValid(c, p) ==
  /\ Startable(c)
  /\ started' = started + 1
  /\ Set(c, [Idle EXCEPT !.op = "getValidAccessToken", !.portalId = p,
                         !.pc = "gv_getTokenData"])
  /\ UNCHANGED <<rows, now, issued, hasClientCreds>>

\* oauth.ts:109 -> tokenStore.ts:96-113: the SELECT runs, or fails
GetValidGetTokenData(c) ==
  /\ call[c].pc = "gv_getTokenData"
  /\ \/ Set(c, [call[c] EXCEPT !.pc = "gv_check",
                               !.tokenData = getTokenData(rows, call[c].portalId)])
     \/ Throw(c, "StoreError")
  /\ UNCHANGED <<rows, now, issued, hasClientCreds, started>>

\* variant: no buffer, refresh only once expired
NeedsRefreshNoBuffer(tokenData, t) == t >= tokenData.expiresAt

\* variant: the comparison the wrong way round
NeedsRefreshFlipped(tokenData, t) == t <= (tokenData.expiresAt - bufferTime)

\* oauth.ts:119: the token is expired or expires within bufferTime
NeedsRefresh(tokenData, t) == t >= (tokenData.expiresAt - bufferTime)

\* variant: no check for a missing record; reading null.expiresAt throws
GetValidCheckNoNullCheck(c) ==
  /\ call[c].pc = "gv_check"
  /\ LET tokenData == call[c].tokenData
     IN  IF tokenData = Null
         THEN Throw(c, "TypeError")
         ELSE IF NeedsRefresh(tokenData, now)
              THEN Set(c, RefreshEntry([call[c] EXCEPT !.path = "refresh"]))
              ELSE Return(c, tokenData.accessToken)
  /\ UNCHANGED <<rows, now, issued, hasClientCreds, started>>

\* oauth.ts:111-124
GetValidCheck(c) ==
  /\ call[c].pc = "gv_check"
  /\ LET tokenData == call[c].tokenData
     IN  IF tokenData = Null
         THEN Throw(c, "NoTokens")
         ELSE IF NeedsRefresh(tokenData, now)
              THEN Set(c, RefreshEntry([call[c] EXCEPT !.path = "refresh"]))
              ELSE Return(c, tokenData.accessToken)
  /\ UNCHANGED <<rows, now, issued, hasClientCreds, started>>

\* ------------------------------------------------------- deleteTokens
\* tokenStore.ts:119-134: the call starts and its DELETE runs
DeleteTokens(c, p) ==
  /\ Startable(c)
  /\ started' = started + 1
  /\ LET r == [Idle EXCEPT !.op = "deleteTokens", !.portalId = p]
     IN  \/ /\ rows' = deleteTokens(rows, p)
            /\ Set(c, Ended(r, "ok", Undefined))
         \/ /\ Set(c, Ended(r, "StoreError", Undefined))
            /\ UNCHANGED rows
  /\ UNCHANGED <<now, issued, hasClientCreds>>

Next ==
  \/ Tick
  \/ \E c \in Calls : StartExchange(c)
  \/ \E c \in Calls : ExchangeResponse(c)
  \/ \E c \in Calls : ExchangeStore(c)
  \/ \E c \in Calls : RefreshGetTokenData(c)
  \/ \E c \in Calls : RefreshResponse(c)
  \/ \E c \in Calls : RefreshStore(c)
  \/ \E c \in Calls : RefreshReturn(c)
  \/ \E c \in Calls, p \in PortalIds : StartGetValid(c, p)
  \/ \E c \in Calls : GetValidGetTokenData(c)
  \/ \E c \in Calls : GetValidCheck(c)
  \/ \E c \in Calls, p \in PortalIds : DeleteTokens(c, p)

\* the token engine and deleteTokens, with no HTTP request in between
Spec == Init /\ [][Next /\ UNCHANGED <<req, serverVars>>]_vars

\* ------------------------------------------- tokenStore.ts, called directly
\* records a caller hands to storeTokens: two per tenant, differing in every
\* token field; the first expires exactly at the first tick of the clock,
\* the second 200 s later
StoreInputs ==
  {[portalId |-> p, accessToken |-> k, refreshToken |-> k + 2,
    expiresAt |-> 1400000 + k * 200000] : p \in PortalIds, k \in {1, 2}}

\* tokenStore.ts:20-33: storeTokens(tokenData) is called and awaits its query
CallStoreTokens(c, d) ==
  /\ Startable(c)
  /\ started' = started + 1
  /\ Set(c, [Idle EXCEPT !.op = "storeTokens", !.portalId = d.portalId,
                         !.pc = "st_query", !.tokenData = d])
  /\ UNCHANGED <<rows, now, issued, hasClientCreds, req>>

\* what is left of a store call once it has ended: its argument, how it ended
\* and, for getTokenData, the record it returned
StoreEnded(r, kind, returned) ==
  [Ended(r, kind, Undefined) EXCEPT !.tokenData = r.tokenData,
                                    !.currentTokenData = returned]

\* tokenStore.ts:34-45: the upsert runs, or fails and the error is rethrown
StoreTokensQuery(c) ==
  /\ call[c].pc = "st_query"
  /\ \/ /\ rows' = storeTokens(rows, call[c].tokenData)
        /\ Set(c, StoreEnded(call[c], "ok", Null))
     \/ /\ Set(c, StoreEnded(call[c], "StoreError", Null))
        /\ UNCHANGED rows
  /\ UNCHANGED <<now, issued, hasClientCreds, started, req>>

\* tokenStore.ts:87-95: getTokenData(portalId) is called and awaits its query
CallGetTokenData(c, p) ==
  /\ Startable(c)
  /\ started' = started + 1
  /\ Set(c, [Idle EXCEPT !.op = "getTokenData", !.portalId = p,
                         !.pc = "gt_query"])
  /\ UNCHANGED <<rows, now, issued, hasClientCreds, req>>

\* variant: a tenant without a row is reported by throwing
GetTokenDataQueryThrowsOnMissing(c) ==
  /\ call[c].pc = "gt_query"
  /\ \/ IF getTokenData(rows, call[c].portalId) = Null
        THEN Set(c, StoreEnded(call[c], "NotFound", Null))
        ELSE Set(c, StoreEnded(call[c], "ok",
                               getTokenData(rows, call[c].portalId)))
     \/ Set(c, StoreEnded(call[c], "StoreError", Null))
  /\ UNCHANGED <<rows, now, issued, hasClientCreds, started, req>>

\* tokenStore.ts:96-113: the SELECT runs and the row or null is returned, or
\* it fails and the error is rethrown
GetTokenDataQuery(c) ==
  /\ call[c].pc = "gt_query"
  /\ \/ Set(c, StoreEnded(call[c], "ok", getTokenData(rows, call[c].portalId)))
     \/ Set(c, StoreEnded(call[c], "StoreError", Null))
  /\ UNCHANGED <<rows, now, issued, hasClientCreds, started, req>>

\* tokenStore.ts:119-125: deleteTokens(portalId) is called and awaits its query
CallDeleteTokens(c, p) ==
  /\ Startable(c)
  /\ started' = started + 1
  /\ Set(c, [Idle EXCEPT !.op = "deleteTokens", !.portalId = p,
                         !.pc = "dl_query"])
  /\ UNCHANGED <<rows, now, issued, hasClientCreds, req>>

\* variant: a DELETE that affected no row is reported by throwing
DeleteTokensQueryRequiresRow(c) ==
  /\ call[c].pc = "dl_query"
  /\ \/ IF {r \in rows : r.portal_id = call[c].portalId} = {}
        THEN /\ Set(c, StoreEnded(call[c], "NotFound", Null))
             /\ UNCHANGED rows
        ELSE /\ rows' = deleteTokens(rows, call[c].portalId)
             /\ Set(c, StoreEnded(call[c], "ok", Null))
     \/ /\ Set(c, StoreEnded(call[c], "StoreError", Null))
        /\ UNCHANGED rows
  /\ UNCHANGED <<now, issued, hasClientCreds, started, req>>

\* tokenStore.ts:126-133: the DELETE runs, or fails and the error is rethrown
DeleteTokensQuery(c) ==
  /\ call[c].pc = "dl_query"
  /\ \/ /\ rows' = deleteTokens(rows, call[c].portalId)
        /\ Set(c, StoreEnded(call[c], "ok", Null))
     \/ /\ Set(c, StoreEnded(call[c], "StoreError", Null))
        /\ UNCHANGED rows
  /\ UNCHANGED <<now, issued, hasClientCreds, started, req>>

\* variant: a token inside the 5-minute window counts as expired
getAccessTokenWithBuffer(t, p, n) ==
  IF {r \in t : r.portal_id = p} = {}
  THEN NullId
  ELSE LET row == CHOOSE r \in t : r.portal_id = p
       IN  IF n >= row.expires_at - bufferTime THEN NullId
           ELSE row.access_token

\* tokenStore.ts:63-77: null without a row or with an expired one, otherwise
\* the access token
getAccessToken(t, p, n) ==
  IF {r \in t : r.portal_id = p} = {}
  THEN NullId
  ELSE LET row == CHOOSE r \in t : r.portal_id = p
       IN  IF n >= row.expires_at THEN NullId ELSE row.access_token

\* tokenStore.ts:141  token !== null (1 is true, 0 is false)
hasValidToken(token) == IF token # NullId THEN 1 ELSE 0

\* tokenStore.ts:51-61 and :139-140: getAccessToken(portalId) is called, by a
\* caller or by hasValidToken(portalId), and awaits its query
CallGetAccessToken(c, p, op) ==
  /\ Startable(c)
  /\ started' = started + 1
  /\ Set(c, [Idle EXCEPT !.op = op, !.portalId = p, !.pc = "ga_query"])
  /\ UNCHANGED <<rows, now, issued, hasClientCreds, req>>

\* tokenStore.ts:61-81 and :140-141: the SELECT runs and the token or null is
\* returned (hasValidToken turns it into a boolean), or it fails and the
\* error is rethrown
GetAccessTokenQuery(c) ==
  /\ call[c].pc = "ga_query"
  /\ \/ LET token == getAccessToken(rows, call[c].portalId, now)
        IN  Set(c, Ended(call[c], "ok",
                         IF call[c].op = "hasValidToken"
                         THEN hasValidToken(token) ELSE token))
     \/ Set(c, Ended(call[c], "StoreError", Undefined))
  /\ UNCHANGED <<rows, now, issued, hasClientCreds, started, req>>

NextStore ==
  \/ Tick /\ UNCHANGED req
  \/ \E c \in Calls, p \in PortalIds,
         op \in {"getAccessToken", "hasValidToken"} : CallGetAccessToken(c, p, op)
  \/ \E c \in Calls : GetAccessTokenQuery(c)
  \/ \E c \in Calls, d \in StoreInputs : CallStoreTokens(c, d)
  \/ \E c \in Calls : StoreTokensQuery(c)
  \/ \E c \in Calls, p \in PortalIds : CallGetTokenData(c, p)
  \/ \E c \in Calls : GetTokenDataQuery(c)
  \/ \E c \in Calls, p \in PortalIds : CallDeleteTokens(c, p)
  \/ \E c \in Calls : DeleteTokensQuery(c)

\* callers that use the credential store directly
SpecStore == Init /\ [][NextStore /\ UNCHANGED serverVars]_vars

\* ------------------------------------------- authMiddleware.ts, the requests
\* a request is being handled in the slot
Handling(c) == req[c].stage \in {"received", "awaiting"}

\* authMiddleware.ts:43-48: Express hands a request to the middleware
ReceiveRequest(c, b) ==
  /\ Startable(c)
  /\ ~Handling(c)
  /\ started' = started + 1
  /\ req' = [req EXCEPT ![c] = [NoRequest EXCEPT !.body = b,
                                                 !.stage = "received"]]
  /\ Set(c, Idle)
  /\ UNCHANGED <<rows, now, issued, hasClientCreds>>

\* res.status(status).json({error, details}); return.  The request is over
\* and its body is dropped.
Answer(r, status, details) ==
  [r EXCEPT !.stage = "answered", !.status = status, !.details = details,
            !.body = Parsed(EmptyBody), !.responses = @ + 1]

\* authMiddleware.ts:49-71 and :81-87: the body is decoded, the tenant id is
\* extracted; the request is answered 401 when decoding throws and 400 when
\* !portalId, otherwise getValidAccessToken(portalId) is awaited
AuthenticateRequest(c) ==
  /\ req[c].stage = "received"
  /\ LET decoded == DecodeBody(req[c].body)
         portalId == extractPortalId(PropertiesOf(decoded))
     IN  IF decoded.kind = "throw"
         THEN /\ req' = [req EXCEPT ![c] = Answer(@, 401, "SyntaxError")]
              /\ UNCHANGED call
         ELSE IF portalId \in {NullId, NaN, 0}
         THEN /\ req' = [req EXCEPT ![c] =
                           Answer([@ EXCEPT !.extracted = portalId], 400, "none")]
              /\ UNCHANGED call
         ELSE /\ req' = [req EXCEPT ![c] = [@ EXCEPT !.stage = "awaiting",
                                                     !.extracted = portalId]]
              /\ Set(c, [Idle EXCEPT !.op = "getValidAccessToken",
                                     !.portalId = portalId,
                                     !.pc = "gv_getTokenData"])
  /\ UNCHANGED <<rows, now, issued, hasClientCreds, started>>

\* variant: next() throws into the try block, and the catch answers 401
AuthenticateResumeAnswersAfterNext(c) ==
  /\ req[c].stage = "awaiting"
  /\ call[c].pc = "done"
  /\ req' = [req EXCEPT ![c] =
               IF call[c].result = "ok"
               THEN [Answer(@, 401, "next") EXCEPT
                       !.portalId = req[c].extracted,
                       !.accessToken = call[c].value, !.nextCalls = @ + 1]
               ELSE Answer(@, 401, call[c].result)]
  /\ UNCHANGED <<rows, now, issued, hasClientCreds, started, call>>

\* authMiddleware.ts:71-87: getValidAccessToken has ended; with a token the
\* tenant id and the client are attached and next() is called, with an error
\* the request is answered 401
AuthenticateResume(c) ==
  /\ req[c].stage = "awaiting"
  /\ call[c].pc = "done"
  /\ req' = [req EXCEPT ![c] =
               IF call[c].result = "ok"
               THEN [@ EXCEPT !.stage = "next", !.nextCalls = @ + 1,
                              !.portalId = req[c].extracted,
                              !.accessToken = call[c].value]
               ELSE Answer(@, 401, call[c].result)]
  /\ UNCHANGED <<rows, now, issued, hasClientCreds, started, call>>

\* the token engine under the middleware: exchanges create the records, and
\* the steps of the getValidAccessToken calls the middleware awaits (the clock
\* stands still: a 300 s token is inside the 5-minute window from its issue)
EngineStep ==
  \/ \E c \in Calls : ~Handling(c) /\ StartExchange(c)
  \/ \E c \in Calls : ExchangeResponse(c)
  \/ \E c \in Calls : ExchangeStore(c)
  \/ \E c \in Calls : GetValidGetTokenData(c)
  \/ \E c \in Calls : GetValidCheck(c)
  \/ \E c \in Calls : RefreshGetTokenData(c)
  \/ \E c \in Calls : RefreshResponse(c)
  \/ \E c \in Calls : RefreshStore(c)
  \/ \E c \in Calls : RefreshReturn(c)

NextAuth ==
  \/ \E c \in Calls, b \in Bodies : ReceiveRequest(c, b)
  \/ \E c \in Calls : AuthenticateRequest(c)
  \/ \E c \in Calls : AuthenticateResume(c)
  \/ EngineStep /\ UNCHANGED req

\* requests through authenticateRequest
SpecAuth == Init /\ [][NextAuth /\ UNCHANGED serverVars]_vars

\* ================================================================ claims
\* the rows of tenant p
RowsOf(t, p) == {r \in t : r.portal_id = p}

\* call c takes a step
StepOf(c) == call'[c] # call[c]

\* call c takes a step from position `from` to position `to`
Moves(c, from, to) == call[c].pc = from /\ call'[c].pc = to

\* call c is a getValidAccessToken call in flight
InGetValid(c) ==
  call[c].op = "getValidAccessToken" /\ call[c].pc \notin {"idle", "done"}

\* the row a refresh call is about to write, field by field
RefreshedRow(c) ==
  [portal_id |-> call[c].portalId,
   access_token |-> call[c].tokenResponse.accessToken,
   refresh_token |-> call[c].newTokenData.refreshToken,
   expires_at |-> call[c].newTokenData.expiresAt]

\* ---------------------------------------------------------------- C1
\* C1: a getValidAccessToken call that finds the token of its tenant inside
\* the 5 minute window (now >= expires_at - 5 min) goes on to refresh; when
\* the authorization server accepts the grant the call has sent exactly one
\* refresh grant, the new expires_at is later than the clock at the moment
\* it is computed, right after the call's upsert the row of the tenant holds
\* the access token of the response and that expires_at, and the call
\* returns the access token of the response.
C1_Step(c) ==
  /\ ( /\ call[c].pc = "gv_check" /\ StepOf(c)
       /\ call[c].tokenData # Null
       /\ now >= call[c].tokenData.expiresAt - 300000 ) =>
        /\ call'[c].tokenCalls = 0
        /\ \/ call'[c].pc = "rf_getTokenData"
           \/ ~hasClientCreds /\ call'[c].pc = "done"
                              /\ call'[c].result = "MissingCredentials"
  /\ Moves(c, "rf_getTokenData", "rf_awaitToken") => call'[c].tokenCalls = 1
  /\ Moves(c, "rf_awaitToken", "rf_storeTokens") =>
        /\ call'[c].tokenCalls = 1
        /\ issued' = issued + 1
        /\ call'[c].tokenResponse.accessToken = issued'
        /\ call'[c].newTokenData.accessToken = issued'
        /\ call'[c].newTokenData.expiresAt > now
  /\ Moves(c, "rf_storeTokens", "rf_return") =>
        /\ RowsOf(rows', call[c].portalId) = {RefreshedRow(c)}
        /\ call'[c] = [call[c] EXCEPT !.pc = "rf_return"]
  /\ Moves(c, "rf_return", "done") =>
        /\ call'[c].result = "ok"
        /\ call'[c].value = call[c].tokenResponse.accessToken
        /\ call'[c].tokenCalls = 1

C1_RefreshOnExpiry ==
  [][\A c \in Calls : InGetValid(c) => C1_Step(c)]_vars

\* a getValidAccessToken call has returned a refreshed token after one grant,
\* and the row of its tenant holds that token with an expires_at in the future
C1_Witness ==
  \E c \in Calls :
    /\ call[c].op = "getValidAccessToken" /\ call[c].pc = "done"
    /\ call[c].path = "refresh"
    /\ call[c].result = "ok" /\ call[c].tokenCalls = 1
    /\ \E r \in rows : /\ r.portal_id = call[c].portalId
                       /\ r.access_token = call[c].value
                       /\ r.expires_at > now

\* ---------------------------------------------------------------- C2
\* C2: a getValidAccessToken call whose SELECT found a record with
\* now < expires_at - 5 min returns the access token of that record, has
\* sent no request to the authorization server, and none of its steps
\* changes the table.
C2_Step(c) ==
  /\ (call[c].pc = "gv_getTokenData" /\ StepOf(c)) =>
        /\ rows' = rows /\ issued' = issued
        /\ call'[c].tokenCalls = 0
        /\ call'[c].pc = "gv_check" =>
             \/ /\ RowsOf(rows, call[c].portalId) = {}
                /\ call'[c].tokenData = Null
             \/ \E r \in rows :
                  /\ r.portal_id = call[c].portalId
                  /\ call'[c].tokenData.accessToken = r.access_token
                  /\ call'[c].tokenData.expiresAt = r.expires_at
  /\ ( /\ call[c].pc = "gv_check" /\ StepOf(c)
       /\ call[c].tokenData # Null
       /\ now < call[c].tokenData.expiresAt - 300000 ) =>
        /\ call'[c].pc = "done"
        /\ call'[c].result = "ok"
        /\ call'[c].value = call[c].tokenData.accessToken
        /\ call'[c].tokenCalls = 0
        /\ rows' = rows /\ issued' = issued

C2_CachedToken == [][\A c \in Calls : InGetValid(c) => C2_Step(c)]_vars

\* a call has returned the stored token without a request, and the record
\* it read is still the tenant's row
C2_Witness ==
  \E c \in Calls :
    /\ call[c].op = "getValidAccessToken" /\ call[c].pc = "done"
    /\ call[c].path = "none" /\ call[c].result = "ok"
    /\ call[c].tokenCalls = 0
    /\ \E r \in rows : /\ r.portal_id = call[c].portalId
                       /\ r.access_token = call[c].value
                       /\ now < r.expires_at - 300000

\* ---------------------------------------------------------------- C3
\* C3: a getValidAccessToken call for a tenant without a row reads no record
\* and fails with "No tokens found for portal ..." (UnauthorizedTenant); it
\* has sent no request to the authorization server and none of its steps
\* changes the table.
C3_Step(c) ==
  /\ ( /\ Moves(c, "gv_getTokenData", "gv_check")
       /\ RowsOf(rows, call[c].portalId) = {} ) =>
        /\ call'[c].tokenData = Null
        /\ rows' = rows
  /\ ( /\ call[c].pc = "gv_check" /\ StepOf(c)
       /\ call[c].tokenData = Null ) =>
        /\ call'[c].pc = "done"
        /\ call'[c].result = "NoTokens"
        /\ call'[c].tokenCalls = 0
        /\ rows' = rows /\ issued' = issued

C3_NoCredential == [][\A c \in Calls : InGetValid(c) => C3_Step(c)]_vars

\* a call for a tenant without a row has failed with NoTokens
C3_Witness ==
  \E c \in Calls :
    /\ call[c].op = "getValidAccessToken" /\ call[c].pc = "done"
    /\ call[c].result = "NoTokens" /\ call[c].tokenCalls = 0
    /\ RowsOf(rows, call[c].portalId) = {}

\* ---------------------------------------------------------------- C4
\* C4: when the authorization server rejects the refresh grant, or the call
\* fails after the grant, the call ends with "Failed to refresh access
\* token" (RefreshFailed); that step and every earlier step of the call
\* leave the table as it is: the only step of getValidAccessToken /
\* refreshAccessToken that writes is the upsert of a successful refresh.
C4_Step(c) ==
  /\ (InGetValid(c) /\ StepOf(c) /\ ~Moves(c, "rf_storeTokens", "rf_return")) =>
        rows' = rows
  /\ (InGetValid(c) /\ call[c].pc \in {"rf_awaitToken", "rf_storeTokens"}
        /\ call'[c].pc = "done") =>
        /\ call'[c].result = "RefreshFailed"
        /\ rows' = rows

C4_RefreshFailedKeepsRecord == [][\A c \in Calls : C4_Step(c)]_vars

\* a refresh has failed after its grant was sent and the tenant's record is
\* still there
C4_Witness ==
  \E c \in Calls :
    /\ call[c].op = "getValidAccessToken" /\ call[c].pc = "done"
    /\ call[c].result = "RefreshFailed" /\ call[c].tokenCalls = 1
    /\ RowsOf(rows, call[c].portalId) # {}

\* ---------------------------------------------------------------- C5
\* call c is a getValidAccessToken call whose refresh has written its record
Upserted(c) ==
  /\ call[c].op = "getValidAccessToken" /\ call[c].path = "refresh"
  /\ \/ call[c].pc = "rf_return"
     \/ call[c].pc = "done" /\ call[c].result = "ok"

\* the access token call c returns
AccessTokenOf(c) ==
  IF call[c].pc = "rf_return" THEN call[c].newTokenData.accessToken
  ELSE call[c].value

\* C5: when two getValidAccessToken calls for one tenant have both refreshed,
\* each returns an access token the authorization server issued and the
\* table holds exactly one row for the tenant; that
\* row is, in access_token, refresh_token and expires_at, the record one of
\* the two calls built from its own response, never a mixture.
C5_DoubleRefresh ==
  \A a, b \in Calls :
    ( /\ a # b /\ Upserted(a) /\ Upserted(b)
      /\ call[a].portalId = call[b].portalId ) =>
      /\ AccessTokenOf(a) \in 1..issued
      /\ AccessTokenOf(b) \in 1..issued
      /\ Cardinality(RowsOf(rows, call[a].portalId)) = 1
      /\ \A r \in RowsOf(rows, call[a].portalId) :
           /\ r.access_token \in {AccessTokenOf(a), AccessTokenOf(b)}
           /\ (call[a].pc = "rf_return" /\ call[b].pc = "rf_return") =>
                r \in {RowOf(call[a].newTokenData), RowOf(call[b].newTokenData)}

\* two overlapping refreshes of one tenant have both written: both read the
\* same record, their responses carry different refresh tokens, and the row
\* is the one of the response issued first, so its upsert ran last
C5_Witness ==
  \E a, b \in Calls :
    /\ a # b
    /\ call[a].op = "getValidAccessToken" /\ call[b].op = "getValidAccessToken"
    /\ call[a].pc = "rf_return" /\ call[b].pc = "rf_return"
    /\ call[a].portalId = call[b].portalId
    /\ call[a].currentTokenData = call[b].currentTokenData
    /\ call[a].newTokenData.accessToken < call[b].newTokenData.accessToken
    /\ call[a].newTokenData.refreshToken # call[b].newTokenData.refreshToken
    /\ RowsOf(rows, call[a].portalId) = {RowOf(call[a].newTokenData)}

\* ---------------------------------------------------------------- C6
\* C6: a row for a tenant comes into existence only by the upsert of a
\* successful exchangeCodeForTokens; in particular a tenant whose row
\* deleteTokens removed has no row until a later exchange writes one.
C6_CreatedOnlyByExchange ==
  [][\A p \in PortalIds :
       (RowsOf(rows, p) = {} /\ RowsOf(rows', p) # {}) =>
          \E c \in Calls : /\ call[c].op = "exchangeCodeForTokens"
                           /\ Moves(c, "ex_storeTokens", "done")
                           /\ call'[c].result = "ok"]_vars

\* ---------------------------------------------------------------- C7
\* the refresh token the record of call c must carry: the one of the
\* response, or the one read from the table when the response has none
ExpectedRefreshToken(r) ==
  IF r.tokenResponse.refreshToken = Undefined
  THEN r.currentTokenData.refreshToken
  ELSE r.tokenResponse.refreshToken

\* C7: the refresh token a refresh reads is the one in the tenant's row; the
\* record it builds and upserts carries the refresh token of the response,
\* or the one it read when the response carries none.
C7_Step(c) ==
  /\ Moves(c, "rf_getTokenData", "rf_awaitToken") =>
        \E r \in RowsOf(rows, call[c].portalId) :
           call'[c].currentTokenData.refreshToken = r.refresh_token
  /\ Moves(c, "rf_awaitToken", "rf_storeTokens") =>
        /\ call'[c].currentTokenData = call[c].currentTokenData
        /\ call'[c].newTokenData.refreshToken = ExpectedRefreshToken(call'[c])
        /\ call'[c].newTokenData.refreshToken # Undefined
  /\ Moves(c, "rf_storeTokens", "rf_return") =>
        \A r \in RowsOf(rows', call[c].portalId) :
           r.refresh_token = ExpectedRefreshToken(call[c])

C7_RefreshTokenRetained == [][\A c \in Calls : C7_Step(c)]_vars

\* a refresh whose response had no refresh token has written; the row has a
\* new access token and the refresh token read before
C7_Witness ==
  \E c \in Calls :
    /\ call[c].pc = "rf_return"
    /\ call[c].tokenResponse.refreshToken = Undefined
    /\ \E r \in RowsOf(rows, call[c].portalId) :
         /\ r.access_token = call[c].tokenResponse.accessToken
         /\ r.access_token # call[c].currentTokenData.accessToken
         /\ r.refresh_token = call[c].currentTokenData.refreshToken

\* ---------------------------------------------------------------- C8
\* call c processes a token response in this step
ProcessesResponse(c) ==
  \/ Moves(c, "ex_awaitToken", "ex_storeTokens")
  \/ Moves(c, "rf_awaitToken", "rf_storeTokens")

\* call c runs its upsert in this step
Upserts(c) ==
  /\ call[c].pc \in {"ex_storeTokens", "rf_storeTokens"}
  /\ call'[c].pc \in {"done", "rf_return"}
  /\ call'[c].result \in {"ok", "none"}

\* C8: the record an exchange or a refresh builds has expires_at = clock at
\* the moment the response is processed + expires_in * 1000, with expires_in
\* 1800 when the response has none; the upsert writes that expires_at, and
\* no other step puts a new expires_at into the table.
C8_Step ==
  /\ \A c \in Calls : ProcessesResponse(c) =>
        call'[c].newTokenData.expiresAt =
           now + 1000 * (IF call'[c].tokenResponse.expiresIn = Undefined
                         THEN 1800 ELSE call'[c].tokenResponse.expiresIn)
  /\ \A c \in Calls : Upserts(c) =>
        \A r \in RowsOf(rows', call[c].newTokenData.portalId) :
           r.expires_at = call[c].newTokenData.expiresAt
  /\ \A r \in rows' :
        (\A q \in rows : ~(q.portal_id = r.portal_id /\ q.expires_at = r.expires_at))
           => \E c \in Calls : /\ Upserts(c)
                               /\ r.portal_id = call[c].newTokenData.portalId

C8_ExpiresAtDerivation == [][C8_Step]_vars

\* a refresh whose response had no expires_in has written at the instant it
\* processed the response: the row expires 1800 s from now
C8_Witness ==
  \E c \in Calls :
    /\ call[c].pc = "rf_return"
    /\ call[c].tokenResponse.expiresIn = Undefined
    /\ \E r \in RowsOf(rows, call[c].portalId) :
         /\ r.access_token = call[c].tokenResponse.accessToken
         /\ r.expires_at = now + 1800000

C9_Step(c) ==
  /\ (call[c].pc = "gv_check" /\ call'[c].pc = "done" /\ call'[c].result = "ok") =>
        /\ call[c].tokenData.expiresAt > now + 300000
        /\ call'[c].value = call[c].tokenData.accessToken
  /\ Moves(c, "rf_awaitToken", "rf_storeTokens") =>
        call'[c].newTokenData.expiresAt > now
  /\ Moves(c, "rf_return", "done") =>
        call'[c].value = call[c].newTokenData.accessToken

C10_OneRowPerTenant ==
  \A r1, r2 \in rows : r1.portal_id = r2.portal_id => r1 = r2

\* a tenant's row has been overwritten by a second upsert
C10_Witness ==
  \E c \in Calls :
    /\ call[c].pc = "rf_return"
    /\ RowOf(call[c].newTokenData) \in rows
    /\ call[c].currentTokenData.accessToken # call[c].newTokenData.accessToken

\* --------------------------------------------------------------- C11
\* storeTokens call c completes its upsert
StoreTokensDone(c) ==
  Moves(c, "st_query", "done") /\ call'[c].result = "ok"

\* C11: a storeTokens(d) that completes leaves exactly one row for d's tenant,
\* holding d's access_token, refresh_token and expires_at, whether or not the
\* tenant had a row before, so a following getTokenData returns d's fields
\* and nothing of an earlier record remains.
C11_UpsertOverwrites ==
  [][\A c \in Calls :
       StoreTokensDone(c) =>
         /\ RowsOf(rows', call[c].portalId) = {RowOf(call[c].tokenData)}
         /\ getTokenData(rows', call[c].portalId) = call[c].tokenData]_vars

\* storeTokens(r1) and storeTokens(r2) for one tenant, with different tokens,
\* have both completed, and the tenant's record is r2
C11_Witness ==
  \E c1, c2 \in Calls :
    /\ call[c1].op = "storeTokens" /\ call[c1].result = "ok"
    /\ call[c2].op = "storeTokens" /\ call[c2].result = "ok"
    /\ call[c1].portalId = call[c2].portalId
    /\ call[c1].tokenData.accessToken # call[c2].tokenData.accessToken
    /\ call[c1].tokenData.refreshToken # call[c2].tokenData.refreshToken
    /\ getTokenData(rows, call[c2].portalId) = call[c2].tokenData

\* --------------------------------------------------------------- C12
\* C12: a deleteTokens(t) that completes leaves no row for t, so getTokenData(t)
\* then finds nothing; when t had no row the store is left as it was; and the
\* only way the call fails is the failure of its query, never a missing row.
C12_DeleteIdempotent ==
  [][\A c \in Calls :
       Moves(c, "dl_query", "done") =>
         /\ call'[c].result \in {"ok", "StoreError"}
         /\ call'[c].result = "ok" =>
              /\ RowsOf(rows', call[c].portalId) = {}
              /\ getTokenData(rows', call[c].portalId) = Null
              /\ RowsOf(rows, call[c].portalId) = {} => rows' = rows
         /\ call'[c].result = "StoreError" => rows' = rows]_vars

\* two deleteTokens calls for one tenant have completed while another tenant
\* keeps its record: the second one found no row
C12_Witness ==
  /\ \A c \in Calls : /\ call[c].op = "deleteTokens" /\ call[c].result = "ok"
                      /\ call[c].portalId = 0
  /\ RowsOf(rows, 0) = {}
  /\ rows # {}

\* --------------------------------------------------------------- C13
\* C13: getTokenData(t) returns the fields of t's row when there is one and
\* null when there is none; a missing row is never an error (the call fails
\* only when its query fails); and the call never changes the table.
C13_GetTokenData ==
  [][\A c \in Calls :
       Moves(c, "gt_query", "done") =>
         /\ rows' = rows
         /\ call'[c].result \in {"ok", "StoreError"}
         /\ call'[c].result = "ok" =>
              /\ RowsOf(rows, call[c].portalId) = {} =>
                   call'[c].currentTokenData = Null
              /\ \A r \in RowsOf(rows, call[c].portalId) :
                   call'[c].currentTokenData =
                     [portalId |-> r.portal_id, accessToken |-> r.access_token,
                      refreshToken |-> r.refresh_token,
                      expiresAt |-> r.expires_at]]_vars

\* one getTokenData has returned a record and another has returned null
C13_Witness ==
  \E c1, c2 \in Calls :
    /\ call[c1].op = "getTokenData" /\ call[c1].result = "ok"
    /\ call[c1].currentTokenData # Null
    /\ call[c1].currentTokenData.portalId = call[c1].portalId
    /\ call[c2].op = "getTokenData" /\ call[c2].result = "ok"
    /\ call[c2].currentTokenData = Null

\* --------------------------------------------------------------- C14
\* call c takes a step of an operation on tenant p that may write p's row: the
\* upsert of its exchange or refresh, a store call's query, or a whole
\* deleteTokens call
ActsOn(c, p) ==
  \/ /\ StepOf(c)
     /\ call[c].pc \in {"ex_storeTokens", "rf_storeTokens"}
     /\ call[c].newTokenData.portalId = p
     /\ call[c].pc = "rf_storeTokens" => call[c].portalId = p
  \/ /\ StepOf(c)
     /\ call[c].pc \in {"st_query", "dl_query"}
     /\ call[c].portalId = p
  \/ /\ started' = started + 1
     /\ call'[c].op = "deleteTokens" /\ call'[c].pc = "done"
     /\ call'[c].portalId = p

\* the tenants whose rows a step creates, changes or removes
Changed == {p \in PortalIds : RowsOf(rows', p) # RowsOf(rows, p)}

\* C14: a step changes the rows of at most one tenant, and only of the tenant
\* that a stepping call operates on; every row belongs to a known tenant.
C14_TenantIsolation ==
  [][/\ \A p, q \in Changed : p = q
     /\ \A p \in Changed : \E c \in Calls : ActsOn(c, p)
     /\ \A r \in rows' : r.portal_id \in PortalIds]_vars

\* a refresh for one tenant has just written its row while another tenant
\* had a record (all calls of the run were made one after another)
C14_Witness ==
  \E c \in Calls :
    /\ call[c].pc = "rf_return"
    /\ \A d \in Calls \ {c} : call[d].pc = "idle"
    /\ RowOf(call[c].newTokenData) \in rows
    /\ \E q \in PortalIds \ {call[c].portalId} : RowsOf(rows, q) # {}

\* --------------------------------------------------------------- C15
\* C15: when the exchange processes a token response that names a tenant, the
\* record it builds has the response's tenant id as an integer, its
\* access_token and refresh_token and expires_at = the clock of that moment +
\* expires_in * 1000; once its storeTokens completes, getTokenData for that
\* tenant returns exactly that record.
C15_ExchangeRoundTrip ==
  [][\A c \in Calls :
       /\ ( /\ Moves(c, "ex_awaitToken", "ex_storeTokens")
            /\ call'[c].tokenResponse.hubId # << >>
            /\ call'[c].tokenResponse.expiresIn # Undefined )
          => call'[c].newTokenData =
               [portalId |-> parseInt(call'[c].tokenResponse.hubId),
                accessToken |-> call'[c].tokenResponse.accessToken,
                refreshToken |-> call'[c].tokenResponse.refreshToken,
                expiresAt |-> now + call'[c].tokenResponse.expiresIn * 1000]
       /\ ( /\ Moves(c, "ex_storeTokens", "done")
            /\ call'[c].result = "ok"
            /\ call[c].tokenResponse.hubId # << >> )
          => LET got == getTokenData(rows', parseInt(call[c].tokenResponse.hubId))
             IN  /\ got = call[c].newTokenData
                 /\ got.accessToken = call[c].tokenResponse.accessToken
                 /\ got.refreshToken = call[c].tokenResponse.refreshToken]_vars

\* an exchange at time 0 whose response named tenant 1 and gave expires_in =
\* 300 has returned and its record is in the table
C15_Witness ==
  \E c \in Calls :
    /\ call[c].op = "exchangeCodeForTokens" /\ call[c].result = "ok"
    /\ \E r \in RowsOf(rows, 1) :
         /\ r.access_token = call[c].value
         /\ r.refresh_token = call[c].value
         /\ r.expires_at = 300 * 1000

\* --------------------------------------------------------------- C16
\* C16: when the authorization server rejects the code, the exchange ends
\* with ExchangeFailed and the table is left exactly as it was; an exchange
\* writes to the table only in the step in which it returns.
C16_RejectedExchange ==
  [][\A c \in Calls :
       /\ Moves(c, "ex_awaitToken", "done") =>
            call'[c].result = "ExchangeFailed" /\ rows' = rows
       /\ ( /\ call[c].op = "exchangeCodeForTokens"
            /\ rows' # rows
            /\ call[c].pc \notin {"idle", "done"}
            /\ started' = started
            /\ \A d \in Calls \ {c} : call'[d] = call[d] )
          => Moves(c, "ex_storeTokens", "done") /\ call'[c].result = "ok"]_vars

\* a tenant had a record and a later exchange was rejected (one grant was
\* issued in the run, the one behind the record; no other call is in flight)
C16_Witness ==
  \E c \in Calls :
    /\ call[c].op = "exchangeCodeForTokens"
    /\ call[c].pc = "done" /\ call[c].result = "ExchangeFailed"
    /\ \A d \in Calls \ {c} : call[d].pc = "idle"
    /\ issued = 1
    /\ rows # {}

\* --------------------------------------------------------------- C20
\* C20: whenever a call ends by throwing in the step in which it was waiting
\* for a store operation, for any reason other than a missing record, what it
\* throws is the store's own error.
C20_StoreErrorAsIs ==
  [][\A c \in Calls :
       ( /\ call[c].pc \in {"gv_getTokenData", "rf_getTokenData",
                            "ex_storeTokens", "rf_storeTokens"}
         /\ call'[c].pc = "done"
         /\ call'[c].result \notin {"ok", "NoTokenData"} )
       => call'[c].result = "StoreError"]_vars

\* --------------------------------------------------------------- C17
\* authenticateRequest decodes the body of request c and extracts from it
Extracts(c) ==
  /\ req[c].stage = "received"
  /\ req'[c].stage # "received"
  /\ DecodeBody(req[c].body).kind # "throw"

\* the decoded body of request c
BodyOf(c) == PropertiesOf(DecodeBody(req[c].body))

\* C17 as stated: the top-level portalId wins over origin.portalId, which
\* wins over context.portalId.
C17_TopLevelFirst ==
  [][\A c \in Calls :
       Extracts(c) =>
         /\ HoldsId(BodyOf(c).portalId) =>
              req'[c].extracted = IdOf(BodyOf(c).portalId)
         /\ ( /\ BodyOf(c).portalId = Absent
              /\ HoldsId(BodyOf(c).origin.portalId) )
            => req'[c].extracted = IdOf(BodyOf(c).origin.portalId)
         /\ ( /\ BodyOf(c).portalId = Absent
              /\ BodyOf(c).origin.portalId = Absent
              /\ HoldsId(BodyOf(c).context.portalId) )
            => req'[c].extracted = IdOf(BodyOf(c).context.portalId)]_vars

\* C17, amended: origin.portalId wins over the top-level portalId, which wins
\* over context.portalId; a location that is absent is passed over.
C17_OriginFirst ==
  [][\A c \in Calls :
       Extracts(c) =>
         /\ HoldsId(BodyOf(c).origin.portalId) =>
              req'[c].extracted = IdOf(BodyOf(c).origin.portalId)
         /\ ( /\ BodyOf(c).origin.portalId = Absent
              /\ HoldsId(BodyOf(c).portalId) )
            => req'[c].extracted = IdOf(BodyOf(c).portalId)
         /\ ( /\ BodyOf(c).origin.portalId = Absent
              /\ BodyOf(c).portalId = Absent
              /\ HoldsId(BodyOf(c).context.portalId) )
            => req'[c].extracted = IdOf(BodyOf(c).context.portalId)]_vars

\* the tenant id has been extracted from a body that holds three different
\* ids in the three locations, and it is the one of origin.portalId
C17_Witness ==
  \E c \in Calls :
    /\ req[c].stage = "awaiting"
    /\ HoldsId(BodyOf(c).portalId)
    /\ HoldsId(BodyOf(c).origin.portalId)
    /\ HoldsId(BodyOf(c).context.portalId)
    /\ IdOf(BodyOf(c).portalId) # IdOf(BodyOf(c).origin.portalId)
    /\ IdOf(BodyOf(c).context.portalId) # IdOf(BodyOf(c).origin.portalId)
    /\ req[c].extracted = IdOf(BodyOf(c).origin.portalId)

\* --------------------------------------------------------------- C18
\* the three locations of a body
Locations(b) == {b.portalId, b.origin.portalId, b.context.portalId}

\* C18: extractPortalId returns an integer tenant id, the one held by one of
\* the three locations, whenever one of them holds a tenant id, and null
\* whenever all three are absent.
C18_IdOrNull ==
  [][\A c \in Calls :
       Extracts(c) =>
         /\ (\E v \in Locations(BodyOf(c)) : HoldsId(v)) =>
              \E v \in Locations(BodyOf(c)) :
                HoldsId(v) /\ req'[c].extracted = IdOf(v)
         /\ (\A v \in Locations(BodyOf(c)) : v = Absent) =>
              req'[c].extracted = NullId]_vars

\* --------------------------------------------------------------- C19
\* how getValidAccessToken can fail
GetValidFailures ==
  {"NoTokens", "NoTokenData", "RefreshFailed", "StoreError", "MissingCredentials"}

\* a tenant id was determined for request c
FoundId(c) == req[c].extracted \in Nat \ {0}

\* C19: a request is answered 400 exactly when no tenant id was determined,
\* 401 exactly when one was determined and getValidAccessToken failed, and is
\* otherwise passed to next with the tenant id and a client for the token
\* attached.
C19_Outcomes ==
  \A c \in Calls :
    req[c].stage \in {"answered", "next"} =>
      /\ req[c].status = 400 <=> ~FoundId(c)
      /\ req[c].status = 401 <=>
           (FoundId(c) /\ req[c].details \in GetValidFailures)
      /\ req[c].stage = "next" <=>
           /\ FoundId(c)
           /\ req[c].status = 0
           /\ req[c].portalId = req[c].extracted
           /\ req[c].accessToken # Undefined

\* --------------------------------------------------------------- C21
\* C21: a call sends at most one token-endpoint request (the
\* authorization_code grant of an exchange, the refresh_token grant of a
\* getValidAccessToken); the step that receives the answer either goes on to
\* the store write or ends the call with ExchangeFailed / RefreshFailed, and
\* a call that ends with an error returns no token.
C21_NoRetry ==
  [][\A c \in Calls :
       /\ call'[c].tokenCalls <= 1
       /\ (StepOf(c) /\ call[c].pc = "ex_awaitToken") =>
            \/ call'[c].pc = "ex_storeTokens"
            \/ call'[c].pc = "done" /\ call'[c].result = "ExchangeFailed"
       /\ (StepOf(c) /\ call[c].pc = "rf_awaitToken") =>
            \/ call'[c].pc = "rf_storeTokens"
            \/ call'[c].pc = "done" /\ call'[c].result = "RefreshFailed"
       /\ (call'[c].pc = "done" /\ call'[c].result # "ok") =>
            call'[c].value = Undefined]_vars

\* a getValidAccessToken whose one refresh grant was rejected has failed, and
\* an exchange whose one request was rejected has failed
C21_Witness ==
  \E c1, c2 \in Calls :
    /\ call[c1].op = "getValidAccessToken" /\ call[c1].pc = "done"
    /\ call[c1].result = "RefreshFailed" /\ call[c1].tokenCalls = 1
    /\ call[c2].op = "exchangeCodeForTokens" /\ call[c2].pc = "done"
    /\ call[c2].result = "ExchangeFailed" /\ call[c2].tokenCalls = 1

\* --------------------------------------------------------------- C22
\* what the runtime guarantees: a call that can run does run, and a database
\* query completes.  The authorization server gives no such guarantee, and
\* the token requests (oauth.ts:22-28 and :73-80) carry no timeout.
Fairness ==
  \A c \in Calls :
    /\ WF_vars(ExchangeStore(c) /\ UNCHANGED <<req, serverVars>>)
    /\ WF_vars(RefreshGetTokenData(c) /\ UNCHANGED <<req, serverVars>>)
    /\ WF_vars(RefreshStore(c) /\ UNCHANGED <<req, serverVars>>)
    /\ WF_vars(RefreshReturn(c) /\ UNCHANGED <<req, serverVars>>)
    /\ WF_vars(GetValidGetTokenData(c) /\ UNCHANGED <<req, serverVars>>)
    /\ WF_vars(GetValidCheck(c) /\ UNCHANGED <<req, serverVars>>)

\* the token engine under that scheduling
SpecLive == Spec /\ Fairness

\* C22: every getValidAccessToken and every exchangeCodeForTokens that was
\* started eventually ends.
C22_Terminates ==
  \A c \in Calls :
    (call[c].pc \notin {"idle", "done"}) ~> (call[c].pc = "done")

\* --------------------------------------------------------------- C25
\* C25: while the calls at work are getValidAccessToken calls, the upsert of
\* a refresh never replaces the refresh token of the tenant's row by one that
\* the authorization server issued earlier (tokens are numbered in the order
\* of their issue).
C25_RefreshTokenNeverRegresses ==
  [][\A c \in Calls :
       ( /\ Moves(c, "rf_storeTokens", "rf_return")
         /\ \A d \in Calls : call[d].op = "getValidAccessToken" ) =>
         \A r \in RowsOf(rows, call[c].portalId) :
           call[c].newTokenData.refreshToken >= r.refresh_token]_vars

\* --------------------------------------------------------------- C26
\* C26: a completed exchange whose response names a tenant leaves that
\* tenant's single row holding the response's tokens; one whose response has
\* no hub_id leaves the single row of tenant 0 holding them, whatever an
\* earlier exchange had stored there.
C26_HubIdOrZero ==
  [][\A c \in Calls :
       (Moves(c, "ex_storeTokens", "done") /\ call'[c].result = "ok") =>
         LET p == IF call[c].tokenResponse.hubId = << >> THEN 0
                  ELSE DecimalValue(call[c].tokenResponse.hubId)
         IN  /\ \A r \in RowsOf(rows', p) :
                  /\ r.access_token = call[c].tokenResponse.accessToken
                  /\ r.refresh_token = call[c].tokenResponse.refreshToken
             /\ Cardinality(RowsOf(rows', p)) = 1
             /\ \A q \in PortalIds \ {p} : RowsOf(rows', q) = RowsOf(rows, q)]_vars

\* two exchanges whose responses had no hub_id have completed one after the
\* other; tenant 0 has one row, with the tokens of the second
C26_Witness ==
  \E c \in Calls :
    /\ call[c].op = "exchangeCodeForTokens" /\ call[c].result = "ok"
    /\ \A d \in Calls \ {c} : call[d].pc = "idle"
    /\ started = 2 /\ issued = 2
    /\ call[c].value = 2
    /\ RowsOf(rows, 0) # {} /\ RowsOf(rows, 1) = {}
    /\ \A r \in RowsOf(rows, 0) : r.access_token = 2

\* --------------------------------------------------------------- C27
\* tenant p has a row that has not expired at time n
Unexpired(t, p, n) == \E r \in RowsOf(t, p) : n < r.expires_at

\* C27: a getAccessToken(p) that completes returns the access token of p's
\* row exactly when there is a row and now < expires_at, and null otherwise;
\* hasValidToken(p) returns true in exactly those cases; neither changes the
\* table nor sends a token request.
C27_GetAccessToken ==
  [][\A c \in Calls :
       Moves(c, "ga_query", "done") =>
         /\ rows' = rows
         /\ issued' = issued
         /\ call'[c].tokenCalls = 0
         /\ call'[c].result \in {"ok", "StoreError"}
         /\ (call'[c].result = "ok" /\ call[c].op = "getAccessToken") =>
              IF Unexpired(rows, call[c].portalId, now)
              THEN \E r \in RowsOf(rows, call[c].portalId) :
                     call'[c].value = r.access_token
              ELSE call'[c].value = NullId
         /\ (call'[c].result = "ok" /\ call[c].op = "hasValidToken") =>
              (call'[c].value = 1 <=> Unexpired(rows, call[c].portalId, now))]_vars

\* with the clock inside the last 5 minutes of tenant 0's token,
\* hasValidToken(0) has returned true and getAccessToken(0) the token
C27_Witness ==
  /\ \E r \in RowsOf(rows, 0) : r.expires_at - bufferTime <= now /\ now < r.expires_at
  /\ \E c1, c2 \in Calls :
       /\ call[c1].op = "hasValidToken" /\ call[c1].result = "ok"
       /\ call[c1].portalId = 0 /\ call[c1].value = 1
       /\ call[c2].op = "getAccessToken" /\ call[c2].result = "ok"
       /\ call[c2].portalId = 0
       /\ \E r \in RowsOf(rows, 0) : call[c2].value = r.access_token

\* --------------------------------------------------------------- C28
\* C28: a request that authenticateRequest is still handling has had no
\* outcome; one it has finished with has had exactly one: either one response,
\* with status 400 or 401, and no call of next, or one call of next, no
\* response, and the tenant id and the client's token attached.
C28_OneOutcome ==
  \A c \in Calls :
    /\ req[c].stage \in {"none", "received", "awaiting"} =>
         req[c].responses = 0 /\ req[c].nextCalls = 0
    /\ req[c].stage \in {"answered", "next"} =>
         /\ req[c].responses + req[c].nextCalls = 1
         /\ req[c].responses = 1 => req[c].status \in {400, 401}
         /\ req[c].nextCalls = 1 =>
              /\ req[c].status = 0
              /\ req[c].portalId \in Nat \ {0}
              /\ req[c].accessToken \in Nat \ {0}

\* one request has been passed to next, and another has been answered 401
\* because its tenant has no record
C28_Witness ==
  \E c1, c2 \in Calls :
    /\ req[c1].stage = "next" /\ req[c1].nextCalls = 1
    /\ req[c2].stage = "answered" /\ req[c2].status = 401
    /\ req[c2].details = "NoTokens"

\* ------------------------------------------------- server.ts, the two routes
\* the watering period of a plant whose watering_days is not set
DefaultWateringDays == 7
HourMs == 3600000
DayMs == 24 * HourMs
\* the clock of the routes advances by half days
HalfDayMs == 12 * HourMs
\* the instant at which the DST zone of the runs moves its clocks forward:
\* 07:00 UTC of day 2, which is 02:00 at five hours behind UTC
DstStart == 55 * HourMs

\* an object nested in a request body (inputFields, fields): missing, or
\* holding a plantId and a contactId
NoFields == [present |-> FALSE, plantId |-> Absent, contactId |-> Absent]
Fields(plantId, contactId) ==
  [present |-> TRUE, plantId |-> plantId, contactId |-> contactId]
\* the property `object` of a request body: missing, or holding an objectId
NoObject == [present |-> FALSE, objectId |-> Absent]
Object(objectId) == [present |-> TRUE, objectId |-> objectId]

\* a parsed request body, by the properties the two routes read
RouteBody(contactId, plantId, wateringDays, inputFields, fields, object) ==
  [contactId |-> contactId, plantId |-> plantId,
   wateringDays |-> wateringDays, inputFields |-> inputFields,
   fields |-> fields, object |-> object]
EmptyRouteBody == RouteBody(Absent, Absent, Absent, NoFields, NoFields, NoObject)
\* the body the card posts to /api/plants/associate
AssociateBody(contactId, plantId, wateringDays) ==
  RouteBody(contactId, plantId, wateringDays, NoFields, NoFields, NoObject)

\* variant: the body is parsed for as long as the result is a string
RECURSIVE parseBodyUntilObject(_)
parseBodyUntilObject(b) ==
  IF ~b.buffer
  THEN [kind |-> "object", levels |-> 0, valid |-> TRUE, obj |-> b.obj]
  ELSE LET parsed == JSONparse(b)
       IN  IF parsed.kind = "string"
           THEN parseBodyUntilObject(Raw(parsed.levels, parsed.valid,
                                         parsed.obj))
           ELSE parsed

\* server.ts:408-438 and :592-605: a Buffer is parsed, and parsed once more
\* when the result is a string; a body that is no Buffer is taken as it is
parseBody(b) ==
  IF ~b.buffer
  THEN [kind |-> "object", levels |-> 0, valid |-> TRUE, obj |-> b.obj]
  ELSE LET parsed == JSONparse(b)
       IN  IF parsed.kind = "string" THEN JSONparse(parsed) ELSE parsed

\* the properties the destructuring finds on a decoded body: a string has
\* none of them
RouteProperties(decoded) ==
  IF decoded.kind = "object" THEN decoded.obj ELSE EmptyRouteBody

\* the handler ends with res.status(status).json({error}); the request body
\* is dropped with the request
Reply(h, status, error) ==
  [h EXCEPT !.pc = "done", !.status = status, !.error = error,
            !.raw = Parsed(EmptyBody)]

\* a slot is free and the run may hand one more request to a route
Routable(c) ==
  /\ handler[c].pc \in {"idle", "done"}
  /\ started < MaxRequests

\* the variables the routes leave alone
engineVars == <<rows, issued, hasClientCreds, call, req, card>>

\* server.ts:398: Express hands a request to POST /api/plants/associate
ReceiveAssociate(c, b) ==
  /\ Routable(c)
  /\ started' = started + 1
  /\ handler' = [handler EXCEPT ![c] =
                   [NoHandler EXCEPT !.route = "associate", !.pc = "as_parse",
                                     !.raw = b]]
  /\ UNCHANGED <<now, hubspot, env>>

\* server.ts:406-479: the body is decoded (400 when that throws), contactId
\* and plantId are required (400), and so is the access token of the
\* environment (500); then the contact is asked for
AssociateParse(c) ==
  /\ handler[c].pc = "as_parse"
  /\ LET decoded == parseBody(handler[c].raw)
         body == RouteProperties(decoded)
         h == [handler[c] EXCEPT !.body = decoded]
     IN  handler' = [handler EXCEPT ![c] =
           IF decoded.kind = "throw" THEN Reply(h, 400, "InvalidJSON")
           ELSE IF ~Truthy(body.contactId) \/ ~Truthy(body.plantId)
           THEN Reply(h, 400, "MissingFields")
           ELSE IF ~env.accessToken THEN Reply(h, 500, "NoAccessToken")
           ELSE [h EXCEPT !.pc = "as_getContact",
                          !.contactId = body.contactId,
                          !.plantId = body.plantId,
                          !.wateringDays = body.wateringDays]]
  /\ UNCHANGED <<now, started, hubspot, env>>

\* the contact with this id is in the portal
ContactExists(contactId) ==
  HoldsId(contactId) /\ IdOf(contactId) \in hubspot.contacts

\* variant: the plant is created whether the contact was found or not
AssociateGetContactIgnoresMissing(c) ==
  /\ handler[c].pc = "as_getContact"
  /\ handler' = [handler EXCEPT ![c] = [@ EXCEPT !.pc = "as_createPlant"]]
  /\ UNCHANGED <<now, started, hubspot, env>>

\* server.ts:481-491: contacts.basicApi.getById(contactId) has ended; when it
\* failed (no such contact, or the API failed) the reply is 400
AssociateGetContact(c) ==
  /\ handler[c].pc = "as_getContact"
  /\ \E found \in {ContactExists(handler[c].contactId), FALSE} :
       handler' = [handler EXCEPT ![c] =
         IF found THEN [@ EXCEPT !.pc = "as_createPlant"]
         ELSE Reply(@, 400, "ContactNotFound")]
  /\ UNCHANGED <<now, started, hubspot, env>>

\* the id HubSpot gives the next plant object
NewObjectId == Cardinality(hubspot.plants) + 1

\* server.ts:495-524 and :562-583: the plant properties are put together and
\* basicApi.create('p_plants') has ended; the created object is in the
\* portal, or the API failed and the reply is 400 (no such object type) or 500
AssociateCreatePlant(c) ==
  /\ handler[c].pc = "as_createPlant"
  /\ \/ /\ hubspot' = [hubspot EXCEPT !.plants = @ \cup
                         {[id |-> NewObjectId,
                           perenual_plant_id |-> handler[c].plantId.chars,
                           watering_days |->
                             IF handler[c].wateringDays.type # "undefined"
                             THEN Str(handler[c].wateringDays.chars)
                             ELSE Absent,
                           last_watered_date |-> Undefined,
                           next_watering_date |-> Undefined]}]
        /\ handler' = [handler EXCEPT ![c] =
                         [@ EXCEPT !.pc = "as_createAssociation",
                                   !.plantObject = NewObjectId]]
     \/ /\ \E e \in {400, 500} :
             handler' = [handler EXCEPT ![c] = Reply(@, e, "CreatePlantFailed")]
        /\ UNCHANGED hubspot
  /\ UNCHANGED <<now, started, env>>

\* server.ts:532-561 and :562-583: associations.batchApi.create has ended;
\* the association is in the portal and the reply is success with the id of
\* the plant object, or the API failed and the reply is 500
AssociateCreateAssociation(c) ==
  /\ handler[c].pc = "as_createAssociation"
  /\ \/ /\ hubspot' = [hubspot EXCEPT !.associations = @ \cup
                         {<<handler[c].plantObject, IdOf(handler[c].contactId)>>}]
        /\ handler' = [handler EXCEPT ![c] =
                         [Reply(@, 200, "none") EXCEPT
                            !.plantObjectId = handler[c].plantObject]]
     \/ /\ handler' = [handler EXCEPT ![c] =
                         Reply(@, 500, "CreateAssociationFailed")]
        /\ UNCHANGED hubspot
  /\ UNCHANGED <<now, started, env>>

\* the body a workflow posts to /api/workflow/water-plant
WaterBody(inputFields, fields, plantId, contactId, object) ==
  RouteBody(contactId, plantId, Absent, inputFields, fields, object)

\* server.ts:625-639: where plantId and contactId are taken from
WaterIds(body) ==
  IF body.inputFields.present
  THEN [plantId |-> body.inputFields.plantId,
        contactId |-> body.inputFields.contactId]
  ELSE IF body.fields.present
  THEN [plantId |-> body.fields.plantId, contactId |-> body.fields.contactId]
  ELSE IF Truthy(body.plantId)
  THEN [plantId |-> body.plantId, contactId |-> body.contactId]
  ELSE IF body.object.present
  THEN [plantId |-> body.object.objectId, contactId |-> body.object.objectId]
  ELSE [plantId |-> Absent, contactId |-> Absent]

\* the time zone of the server: what local time is ahead of UTC at instant t.
\* The zone "DST" is five hours behind UTC until DstStart and four after.
Offset(zone, t) ==
  IF zone = "UTC" THEN 0
  ELSE IF t < DstStart THEN 0 - 5 * HourMs ELSE 0 - 4 * HourMs

\* the instant of a local time.  A local time that the clock change skips is
\* read with the offset before the change.
FromLocal(zone, local) ==
  IF zone = "UTC" THEN local
  ELSE IF local < DstStart - 4 * HourMs THEN local + 5 * HourMs
  ELSE local + 4 * HourMs

\* server.ts:705-706: d = new Date(t); d.setDate(d.getDate() + n).  The day
\* of the month is a field of local time: n days are added to the local
\* time of t.
setDatePlus(zone, t, n) == FromLocal(zone, t + Offset(zone, t) + n * DayMs)

\* server.ts:708-709: d.toISOString().split('T')[0], the date of instant t
\* in UTC, as the number of the day
toISODate(t) == t \div DayMs

\* variant: the day of the month is taken and set in UTC
setUTCDatePlus(zone, t, n) == t + n * DayMs

\* server.ts:587: Express hands a request to POST /api/workflow/water-plant
ReceiveWater(c, b) ==
  /\ Routable(c)
  /\ started' = started + 1
  /\ handler' = [handler EXCEPT ![c] =
                   [NoHandler EXCEPT !.route = "water-plant",
                                     !.pc = "wp_parse", !.raw = b]]
  /\ UNCHANGED <<now, hubspot, env>>

\* server.ts:591-666: the body is decoded (400 when that throws), plantId is
\* required (400), and so is the access token of the environment (500); the
\* contact is looked up when the body names none
WaterParse(c) ==
  /\ handler[c].pc = "wp_parse"
  /\ LET decoded == parseBody(handler[c].raw)
         ids == WaterIds(RouteProperties(decoded))
         h == [handler[c] EXCEPT !.body = decoded]
     IN  handler' = [handler EXCEPT ![c] =
           IF decoded.kind = "throw" THEN Reply(h, 400, "InvalidJSON")
           ELSE IF ~Truthy(ids.plantId) THEN Reply(h, 400, "MissingFields")
           ELSE IF ~env.accessToken THEN Reply(h, 500, "NoAccessToken")
           ELSE [h EXCEPT !.pc = IF ~Truthy(ids.contactId)
                                 THEN "wp_getAssociations" ELSE "wp_getPlant",
                          !.contactId = ids.contactId,
                          !.plantId = ids.plantId]]
  /\ UNCHANGED <<now, started, hubspot, env>>

\* the contacts associated with the plant object of this id
ContactsOf(plantId) ==
  IF HoldsId(plantId)
  THEN {a[2] : a \in {b \in hubspot.associations : b[1] = IdOf(plantId)}}
  ELSE {}

\* server.ts:666-686: associationsApi.getAll has ended; the first contact it
\* lists becomes contactId, and without one, or when the API failed, the
\* handler goes on without
WaterGetAssociations(c) ==
  /\ handler[c].pc = "wp_getAssociations"
  /\ \/ \E k \in ContactsOf(handler[c].plantId) :
          handler' = [handler EXCEPT ![c] =
                        [@ EXCEPT !.pc = "wp_getPlant", !.contactId = Num(<<k>>)]]
     \/ handler' = [handler EXCEPT ![c] = [@ EXCEPT !.pc = "wp_getPlant"]]
  /\ UNCHANGED <<now, started, hubspot, env>>

\* the plant objects of this id
PlantsOf(plantId) ==
  IF HoldsId(plantId)
  THEN {pl \in hubspot.plants : pl.id = IdOf(plantId)}
  ELSE {}

\* server.ts:691-709 and :735-746: basicApi.getById('p_plants', plantId) has
\* ended.  With the plant, the watering period is read and the two dates are
\* computed from the clock; toISOString throws for the date that a period of
\* NaN gives.  Without it (no such plant, or the API failed) the reply is 500.
WaterGetPlant(c) ==
  /\ handler[c].pc = "wp_getPlant"
  /\ \/ \E plant \in PlantsOf(handler[c].plantId) :
          LET wateringDays == IF Truthy(plant.watering_days)
                              THEN parseInt10(plant.watering_days)
                              ELSE DefaultWateringDays
          IN  handler' = [handler EXCEPT ![c] =
                IF wateringDays = NaN THEN Reply(@, 500, "RangeError")
                ELSE [@ EXCEPT !.pc = "wp_update",
                               !.days = wateringDays,
                               !.today = toISODate(now),
                               !.next = toISODate(setDatePlus(env.zone, now,
                                                              wateringDays))]]
     \/ handler' = [handler EXCEPT ![c] = Reply(@, 500, "GetPlantFailed")]
  /\ UNCHANGED <<now, started, hubspot, env>>

\* server.ts:714-734 and :735-746: basicApi.update has ended; the plant holds
\* the two dates and the reply carries them, or the API failed and the reply
\* is 500
WaterUpdate(c) ==
  /\ handler[c].pc = "wp_update"
  /\ \/ /\ hubspot' = [hubspot EXCEPT !.plants =
                         {IF pl.id = IdOf(handler[c].plantId)
                          THEN [pl EXCEPT
                                  !.last_watered_date = handler[c].today,
                                  !.next_watering_date = handler[c].next]
                          ELSE pl : pl \in @}]
        /\ handler' = [handler EXCEPT ![c] =
                         [Reply(@, 200, "none") EXCEPT
                            !.lastWateredDate = handler[c].today,
                            !.nextWateringDate = handler[c].next]]
     \/ /\ handler' = [handler EXCEPT ![c] = Reply(@, 500, "UpdateFailed")]
        /\ UNCHANGED hubspot
  /\ UNCHANGED <<now, started, env>>

\* half a day passes between two steps of the routes
ServerTick ==
  /\ now + HalfDayMs <= MaxHalfDays * HalfDayMs
  /\ now' = now + HalfDayMs
  /\ UNCHANGED <<started, handler, hubspot, env>>

\* the request bodies of the runs of POST /api/plants/associate: contact 1
\* is in the portal, contact 2 is not
AssociateBodies ==
  { Raw(0, TRUE, AssociateBody(Str(<<1>>), Num(<<5>>), Num(<<3>>))),
    Raw(1, TRUE, AssociateBody(Str(<<1>>), Num(<<5>>), Num(<<3>>))),
    Raw(2, TRUE, AssociateBody(Str(<<1>>), Num(<<5>>), Num(<<3>>))),
    Raw(0, TRUE, AssociateBody(Str(<<1>>), Num(<<6>>), Absent)),
    Raw(0, TRUE, AssociateBody(Str(<<2>>), Num(<<5>>), Absent)),
    Raw(0, TRUE, AssociateBody(Absent, Num(<<5>>), Absent)),
    Raw(0, FALSE, EmptyRouteBody),
    Parsed(EmptyRouteBody) }

\* the request bodies of the runs of POST /api/workflow/water-plant
WaterBodies ==
  { Raw(0, TRUE, WaterBody(Fields(Str(<<1>>), Str(<<1>>)), NoFields,
                           Absent, Absent, NoObject)),
    Raw(0, TRUE, WaterBody(NoFields, Fields(Str(<<1>>), Absent),
                           Absent, Absent, NoObject)),
    Raw(1, TRUE, WaterBody(NoFields, NoFields, Num(<<1>>), Absent, NoObject)),
    Raw(0, TRUE, WaterBody(NoFields, NoFields, Absent, Absent,
                           Object(Str(<<2>>)))),
    Raw(0, FALSE, EmptyRouteBody) }

\* the server is started with or without HUBSPOT_ACCESS_TOKEN in its
\* environment, in a time zone without or with daylight saving time
InitServer ==
  /\ rows = {}
  /\ now = 0
  /\ issued = 0
  /\ hasClientCreds = TRUE
  /\ started = 0
  /\ call = [c \in Calls |-> Idle]
  /\ req = [c \in Calls |-> NoRequest]
  /\ handler = [c \in Calls |-> NoHandler]
  /\ hubspot = EmptyPortal
  /\ env \in [accessToken : BOOLEAN, zone : {"UTC", "DST"}]
  /\ card = CardMounted

NextServer ==
  \/ \E c \in Calls, b \in AssociateBodies : ReceiveAssociate(c, b)
  \/ \E c \in Calls : AssociateParse(c)
  \/ \E c \in Calls : AssociateGetContact(c)
  \/ \E c \in Calls : AssociateCreatePlant(c)
  \/ \E c \in Calls : AssociateCreateAssociation(c)
  \/ \E c \in Calls, b \in WaterBodies : ReceiveWater(c, b)
  \/ \E c \in Calls : WaterParse(c)
  \/ \E c \in Calls : WaterGetAssociations(c)
  \/ \E c \in Calls : WaterGetPlant(c)
  \/ \E c \in Calls : WaterUpdate(c)
  \/ ServerTick

\* requests to the two routes of server.ts
SpecServer == InitServer /\ [][NextServer /\ UNCHANGED engineVars]_vars

\* --------------------------------------------------------------- C23
\* the ids of the plant objects of a portal
PlantIds(portal) == {pl.id : pl \in portal.plants}

\* C23: in POST /api/plants/associate a plant object is created only by a
\* handler whose contact has been found in the portal, an association is
\* created only for a plant object that has been created, by the handler that
\* created it, and the success reply is sent only when both exist: it carries
\* the id of the created plant object, which is associated with the contact.
C23_AssociateOrder ==
  [][/\ PlantIds(hubspot') # PlantIds(hubspot) =>
          \E c \in Calls :
            /\ handler[c].pc = "as_createPlant"
            /\ handler'[c].pc = "as_createAssociation"
            /\ ContactExists(handler[c].contactId)
            /\ PlantIds(hubspot') = PlantIds(hubspot) \cup {handler'[c].plantObject}
     /\ hubspot'.associations # hubspot.associations =>
          \E c \in Calls :
            /\ handler[c].pc = "as_createAssociation"
            /\ handler'[c].pc = "done"
            /\ handler[c].plantObject \in PlantIds(hubspot)
            /\ hubspot'.associations = hubspot.associations \cup
                 {<<handler[c].plantObject, IdOf(handler[c].contactId)>>}
     /\ \A c \in Calls :
          /\ handler'[c].route = "associate"
          /\ handler'[c].status = 200
          /\ handler[c].status # 200
          => /\ handler'[c].plantObjectId \in PlantIds(hubspot')
             /\ handler'[c].plantObjectId = handler[c].plantObject
             /\ <<handler'[c].plantObjectId, IdOf(handler'[c].contactId)>>
                  \in hubspot'.associations
             /\ ContactExists(handler'[c].contactId)
    ]_vars

\* one request has been answered with success and its plant object is in
\* the portal, associated with the contact; another, for a contact that is
\* not in the portal, has been answered 400, and no plant was created for it
C23_Witness ==
  \E c1, c2 \in Calls :
    /\ handler[c1].route = "associate" /\ handler[c1].status = 200
    /\ handler[c1].plantObjectId \in PlantIds(hubspot)
    /\ <<handler[c1].plantObjectId, 1>> \in hubspot.associations
    /\ handler[c2].route = "associate" /\ handler[c2].status = 400
    /\ handler[c2].error = "ContactNotFound"
    /\ Cardinality(hubspot.plants) = 1

\* --------------------------------------------------------------- C24
\* C24: the routes decode a body with at most two JSON decodes.  A body that
\* is the JSON text of an object (levels 0) and one that is the JSON text of
\* that text (levels 1) decode to the same object; a body encoded more often
\* is still a string after the second decode and is left as that string, two
\* levels further in, so that none of its properties is found.  The decoding
\* of authenticateRequest gives the same result for the same body.
C24_TwoDecodes ==
  [][\A c \in Calls :
          /\ handler[c].pc \in {"as_parse", "wp_parse"}
          /\ handler'[c] # handler[c]
          /\ handler[c].raw.buffer
          /\ handler[c].raw.valid
          => /\ handler[c].raw.levels <= 1 =>
                  /\ handler'[c].body.kind = "object"
                  /\ handler'[c].body.obj = handler[c].raw.obj
             /\ handler[c].raw.levels >= 2 =>
                  /\ handler'[c].body.kind = "string"
                  /\ handler'[c].body.levels = handler[c].raw.levels - 2
                  /\ handler'[c].status = 400
                  /\ handler'[c].error = "MissingFields"
             /\ DecodeBody(handler[c].raw) = handler'[c].body
    ]_vars

\* a twice-encoded body has been decoded to its object, and a body encoded
\* three times has been left a string
C24_Witness ==
  \E c1, c2 \in Calls :
    /\ handler[c1].raw.levels = 1
    /\ handler[c1].body.kind = "object"
    /\ handler[c1].body.obj = handler[c1].raw.obj
    /\ handler[c2].body.kind = "string"
    /\ handler[c2].status = 400

\* --------------------------------------------------------------- C29
\* C29: a successful reply of the water-plant route carries, as
\* nextWateringDate, the date that lies the watering period after
\* lastWateredDate.
C29_NextIsTodayPlusDays ==
  \A c \in Calls :
    handler[c].route = "water-plant" /\ handler[c].status = 200 =>
      handler[c].nextWateringDate = handler[c].lastWateredDate + handler[c].days

\* --------------------------------------------------- the plant search card
\* the ids of the plants a search lists
SearchResults == {5, 6}

\* part_002:390-394: the plant is among the associated plants of the contact
isPlantAlreadyAdded(plantId) == Num(<<plantId>>).chars \in card.associatedPlants

\* part_002:461-747: which of the views the card renders (no plant is being
\* edited)
View ==
  IF card.selectedPlant = Undefined /\ ~card.showSearch THEN "main"
  ELSE IF card.selectedPlant = Undefined THEN "search"
  ELSE "details"

\* the variables the card leaves alone
backendVars == <<rows, now, issued, hasClientCreds, started, call, req,
                 handler, env>>

\* part_002:601: the button that opens the search
ShowSearch ==
  /\ View = "main"
  /\ card' = [card EXCEPT !.showSearch = TRUE]
  /\ UNCHANGED hubspot

\* part_002:608-609: the button that closes the search
CancelSearch ==
  /\ View = "search"
  /\ card' = [card EXCEPT !.showSearch = FALSE]
  /\ UNCHANGED hubspot

\* part_002:167-176 and :680-681: a click on "View Details" of a listed plant
\* that is not marked as added; viewPlantDetails sends its request
ClickViewDetails(plantId) ==
  /\ View = "search"
  /\ ~isPlantAlreadyAdded(plantId)
  /\ card.clicks < MaxClicks
  /\ card' = [card EXCEPT !.loading = TRUE, !.error = "none",
                          !.details = @ \cup {plantId}, !.clicks = @ + 1]
  /\ UNCHANGED hubspot

\* part_002:178-214: the request of viewPlantDetails has ended; the plant is
\* selected, or the error is shown
DetailsResponse(plantId) ==
  /\ plantId \in card.details
  /\ \/ card' = [card EXCEPT !.selectedPlant = plantId, !.selection = @ + 1,
                             !.details = @ \ {plantId}, !.loading = FALSE]
     \/ card' = [card EXCEPT !.error = "details", !.details = @ \ {plantId},
                             !.loading = FALSE]
  /\ UNCHANGED hubspot

\* part_002:353-355 and :695
BackToSearch ==
  /\ View = "details"
  /\ card' = [card EXCEPT !.selectedPlant = Undefined]
  /\ UNCHANGED hubspot

\* part_002:278-321 and :745-747: a click on "Add Plant to Contact", which
\* the details view always offers; addPlantToContact (the card has a contact
\* and a selected plant) sends POST /api/plants/associate
ClickAddPlant ==
  /\ View = "details"
  /\ card.clicks < MaxClicks
  /\ card' = [card EXCEPT !.loading = TRUE, !.error = "none",
                          !.clicks = @ + 1,
                          !.requests = Append(@, [plantId |-> card.selectedPlant,
                                                  selection |-> card.selection,
                                                  pc |-> "post"])]
  /\ UNCHANGED hubspot

\* part_002:305-338 and :345-350, server.ts:518-561: the POST of request i has
\* ended.  It succeeded: the backend has created a plant object and its
\* association with the contact, and fetchAssociatedPlants sends its request.
\* It failed: the error is shown.
AddPlantResponse(i) ==
  /\ card.requests[i].pc = "post"
  /\ \/ /\ hubspot' =
             [hubspot EXCEPT
                !.plants = @ \cup
                  {[id |-> NewObjectId,
                    perenual_plant_id |-> Num(<<card.requests[i].plantId>>).chars,
                    watering_days |-> Absent,
                    last_watered_date |-> Undefined,
                    next_watering_date |-> Undefined]},
                !.associations = @ \cup {<<NewObjectId, 1>>}]
        /\ card' = [card EXCEPT !.requests[i].pc = "refresh", !.loading = TRUE]
     \/ /\ card' = [card EXCEPT !.requests[i].pc = "done", !.error = "add",
                                !.loading = FALSE]
        /\ UNCHANGED hubspot

\* part_002:93-114 and :338-350: the request of fetchAssociatedPlants has
\* ended, with the plants of the contact or with a failure that leaves the
\* list as it is; the card goes back to its main view
AddPlantRefreshed(i) ==
  /\ card.requests[i].pc = "refresh"
  /\ \E plants \in {card.associatedPlants,
                    {pl.perenual_plant_id :
                       pl \in {q \in hubspot.plants :
                                 <<q.id, 1>> \in hubspot.associations}}} :
       card' = [card EXCEPT !.requests[i].pc = "done",
                            !.associatedPlants = plants,
                            !.selectedPlant = Undefined,
                            !.showSearch = FALSE, !.loading = FALSE]
  /\ UNCHANGED hubspot

NextCard ==
  \/ ShowSearch
  \/ CancelSearch
  \/ \E plantId \in SearchResults : ClickViewDetails(plantId)
  \/ \E plantId \in SearchResults : DetailsResponse(plantId)
  \/ BackToSearch
  \/ ClickAddPlant
  \/ \E i \in 1..MaxClicks : i <= Len(card.requests) /\ AddPlantResponse(i)
  \/ \E i \in 1..MaxClicks : i <= Len(card.requests) /\ AddPlantRefreshed(i)

\* the card is mounted on the record of contact 1, which has no plants
InitCard ==
  /\ rows = {}
  /\ now = 0
  /\ issued = 0
  /\ hasClientCreds = TRUE
  /\ started = 0
  /\ call = [c \in Calls |-> Idle]
  /\ req = [c \in Calls |-> NoRequest]
  /\ handler = [c \in Calls |-> NoHandler]
  /\ hubspot = EmptyPortal
  /\ env = [accessToken |-> TRUE, zone |-> "UTC"]
  /\ card = CardMounted

\* a user at the card of one contact
SpecCard == InitCard /\ [][NextCard /\ UNCHANGED backendVars]_vars

\* --------------------------------------------------------------- C30
\* C30: at most one POST /api/plants/associate of the card is in flight at a
\* time, and no two of its POSTs are for the same selection of a plant.
C30_OnePostPerSelection ==
  \A i, j \in 1..Len(card.requests) :
    i # j =>
      /\ ~(card.requests[i].pc = "post" /\ card.requests[j].pc = "post")
      /\ card.requests[i].selection # card.requests[j].selection

====
